---- MODULE Spec2Model ----
(***************************************************************************)
(* Model of the Notion project-migration tool: the remote store (pages of  *)
(* the Tasks and Projects databases), the single-record migration          *)
(* orchestrator (a state machine driven by key presses and store calls)    *)
(* and the batch migration steps (`migrate <subcommand>`), each of which   *)
(* queries its working set by migration marker and processes it record by  *)
(* record.  Every store call is one atomic step of the model; a store call *)
(* may fail (it throws), and a batch step may be killed between two calls. *)
(***************************************************************************)
EXTENDS Integers, Sequences, FiniteSets, TLC

VARIABLES
    pages,      \* the remote store: page id -> properties
    fails,      \* number of store calls that have failed so far
    \* ---- orchestrator (MigrationOrchestrator component)
    step,       \* state.step
    error,      \* state.error is set
    client,     \* the Notion client has been created
    taskId,     \* state.taskId ("none" while null)
    opc,        \* position of the in-flight async function of the orchestrator
    oloc,       \* its local variables
    effDeps,    \* dependencies seen by the last run of the auto-execute effect
    exited,     \* process.exit(0) was called
    \* ---- batch steps (one CLI invocation at a time)
    cmd,        \* the running subcommand, "idle" when none
    pc,         \* position inside the running subcommand
    projects,   \* the working set returned by the initial query (snapshots)
    i,          \* index of the record being processed
    loc,        \* local variables of the record being processed
    report,     \* processedProjects: per-record outcome of the running step
    result,     \* the result the last finished subcommand reported
    runs,       \* number of subcommands started so far
    mode,       \* "any": subcommands in any order; "pipeline": in the documented order
    hist,       \* history of what the steps did (used only to state properties)
    \* ---- the text codec of the transfer fields, applied on its own
    fn,         \* the id list given, the text encoded from it, the ids decoded
    \* ---- a step execution of the orchestrator that was started while another
    \* one was in flight
    second      \* its position and its locals

vars == <<pages, fails, step, error, client, taskId, opc, oloc, effDeps, exited,
          cmd, pc, projects, i, loc, report, result, runs, mode, hist, fn, second>>

orchVars == <<step, error, client, taskId, opc, oloc, effDeps, exited>>
batchVars == <<cmd, pc, projects, i, loc, report, result, runs, mode, hist>>

(***************************************************************************)
(* Bounds of the model.                                                    *)
(***************************************************************************)
MaxFails == 1       \* store calls that may fail in one behaviour
MaxIds == 3         \* ids in a list given to the text codec
MaxRuns == 2        \* subcommands started in one behaviour ("any" mode)

(***************************************************************************)
(* Identifiers.  Pages p1, p2 are candidate projects, s1, s2 candidate     *)
(* subtasks; x1 is a parent project that lives outside the two databases.  *)
(***************************************************************************)
Ids == {"p1", "p2", "s1", "s2"}
ParentIds == {"x1"}
\* the values of the 'Migration status' select ("None": no value)
Markers == {"None", "Project to migrate", "Subtask to relink", "Migrated", "Error"}

(***************************************************************************)
(* Text of a rich_text property: a sequence of tokens.  A token is an id,  *)
(* the notion.so URL of an id, a separator character or a completion note. *)
(***************************************************************************)
IdTok(x) == <<"id", x>>
UrlTok(x) == <<"url", x>>
Comma == <<"sep", ",">>
Space == <<"sep", " ">>
Note(n) == <<"note", n>>

RECURSIVE JoinCommaSpace(_)
JoinCommaSpace(toks) ==
    IF Len(toks) = 0 THEN <<>>
    ELSE IF Len(toks) = 1 THEN <<toks[1]>>
    ELSE <<toks[1], Comma, Space>> \o JoinCommaSpace(Tail(toks))

MapSeq(s, Op(_)) == [k \in 1..Len(s) |-> Op(s[k])]

RECURSIVE SplitAt(_, _, _)
\* String.prototype.split(sep): the segments of text between occurrences of sep
SplitAt(text, sep, cur) ==
    IF Len(text) = 0 THEN <<cur>>
    ELSE IF Len(text) >= Len(sep) /\ SubSeq(text, 1, Len(sep)) = sep
         THEN <<cur>> \o SplitAt(SubSeq(text, Len(sep) + 1, Len(text)), sep, <<>>)
         ELSE SplitAt(Tail(text), sep, Append(cur, text[1]))

RECURSIVE TrimLeft(_)
TrimLeft(seg) == IF Len(seg) > 0 /\ seg[1] = Space THEN TrimLeft(Tail(seg)) ELSE seg
RECURSIVE TrimRight(_)
TrimRight(seg) ==
    IF Len(seg) > 0 /\ seg[Len(seg)] = Space THEN TrimRight(SubSeq(seg, 1, Len(seg) - 1)) ELSE seg
Trim(seg) == TrimRight(TrimLeft(seg))

\* the page id a trimmed segment denotes; anything that is not one bare id
\* is a string that names no page
SegId(seg) == IF Len(seg) = 1 /\ seg[1][1] = "id" THEN seg[1][2] ELSE "invalid"

\* text.split(sep).map(id => id.trim()).filter(Boolean)
DecodeIds(text, sep) ==
    LET segs == MapSeq(SplitAt(text, sep, <<>>), Trim)
        kept == SelectSeq(segs, LAMBDA g : Len(g) > 0)
    IN  MapSeq(kept, SegId)

\* transferText.match(/https:\/\/www\.notion\.so\/([a-f0-9]{32})/g), each match
\* turned back into a hyphenated id
DecodeUrls(text) ==
    MapSeq(SelectSeq(text, LAMBDA t : t[1] = "url"), LAMBDA t : t[2])

Range(s) == {s[k] : k \in 1..Len(s)}

(***************************************************************************)
(* The same codec on characters: a page id is a lower-case UUID, a text is *)
(* a sequence of characters.                                               *)
(***************************************************************************)
HexDigits == {"0", "1", "2", "3", "4", "5", "6", "7", "8", "9", "a", "b", "c", "d", "e", "f"}

\* 'https://www.notion.so/'
UrlPrefix == <<"h", "t", "t", "p", "s", ":", "/", "/", "w", "w", "w", ".",
               "n", "o", "t", "i", "o", "n", ".", "s", "o", "/">>

RECURSIVE JoinChars(_, _)
\* parts.join(sep)
JoinChars(parts, sep) ==
    IF Len(parts) = 0 THEN <<>>
    ELSE IF Len(parts) = 1 THEN parts[1]
    ELSE parts[1] \o sep \o JoinChars(Tail(parts), sep)

\* text starts with sep at position pos
StartsAt(text, sep, pos) ==
    pos + Len(sep) - 1 <= Len(text) /\ SubSeq(text, pos, pos + Len(sep) - 1) = sep

\* the first position from pos on at which text has sep, 0 when there is none
FirstAt(text, sep, pos) ==
    LET hits == {k \in pos..Len(text) : StartsAt(text, sep, k)}
    IN  IF hits = {} THEN 0 ELSE CHOOSE k \in hits : \A h \in hits : k <= h

RECURSIVE SplitChars(_, _, _)
\* text.split(sep), from position pos on
SplitChars(text, sep, pos) ==
    LET k == FirstAt(text, sep, pos)
    IN  IF k = 0 THEN <<SubSeq(text, pos, Len(text))>>
        ELSE <<SubSeq(text, pos, k - 1)>> \o SplitChars(text, sep, k + Len(sep))

\* id.trim()
TrimChars(seg) ==
    LET inked == {k \in 1..Len(seg) : seg[k] # " "}
    IN  IF inked = {} THEN <<>>
        ELSE SubSeq(seg, CHOOSE k \in inked : \A h \in inked : k <= h,
                         CHOOSE k \in inked : \A h \in inked : k >= h)

\* ids.join(', ')
EncodeIdList(ids) == JoinChars(ids, <<",", " ">>)

\* text.split(sep).map(id => id.trim()).filter(id => id.length > 0)
DecodeIdList(text, sep) ==
    LET segs == SplitChars(text, sep, 1)
        trimmed == [n \in 1..Len(segs) |-> TrimChars(segs[n])]
    IN  SelectSeq(trimmed, LAMBDA g : Len(g) > 0)

\* id.replace(/-/g, '')
StripHyphens(id) == SelectSeq(id, LAMBDA c : c # "-")

\* ids.map(id => `https://www.notion.so/${id.replace(/-/g, '')}`).join(', ')
EncodeUrlList(ids) ==
    JoinChars([n \in 1..Len(ids) |-> UrlPrefix \o StripHyphens(ids[n])], <<",", " ">>)

\* the 32 characters from pos on are hexadecimal digits
HexRunAt(text, pos) ==
    pos + 31 <= Len(text) /\ \A k \in pos..(pos + 31) : text[k] \in HexDigits

\* a match of /https:\/\/www\.notion\.so\/([a-f0-9]{32})/ starts at pos
UrlAt(text, pos) ==
    StartsAt(text, UrlPrefix, pos) /\ HexRunAt(text, pos + Len(UrlPrefix))

RECURSIVE MatchUrls(_, _)
\* text.match(/.../g): the 32 digits of every match from position pos on,
\* leftmost first, a match starting where the one before ended at the earliest
MatchUrls(text, pos) ==
    LET hits == {k \in pos..Len(text) : UrlAt(text, k)}
        first == CHOOSE k \in hits : \A h \in hits : k <= h
    IN  IF hits = {} THEN <<>>
        ELSE <<SubSeq(text, first + Len(UrlPrefix), first + Len(UrlPrefix) + 31)>>
                \o MatchUrls(text, first + Len(UrlPrefix) + 32)

\* the digits left as they are
KeepStripped(id) == id

\* `${id.slice(0, 8)}-${id.slice(8, 12)}-${id.slice(12, 16)}-${id.slice(16, 20)}-${id.slice(20)}`
Hyphenate(id) ==
    SubSeq(id, 1, 8) \o <<"-">> \o SubSeq(id, 9, 12) \o <<"-">> \o SubSeq(id, 13, 16)
        \o <<"-">> \o SubSeq(id, 17, 20) \o <<"-">> \o SubSeq(id, 21, Len(id))

\* urlMatches.map(url => hyphenated id)
DecodeUrlList(text) ==
    LET found == MatchUrls(text, 1)
    IN  [n \in 1..Len(found) |-> Hyphenate(found[n])]
Without(s, x) == SelectSeq(s, LAMBDA y : y # x)

(***************************************************************************)
(* The store.  A page maps property names to values; "parent" is the       *)
(* database the page lives in ("None": the page does not exist).  A select *)
(* or status property without a value is "None", an empty relation, people *)
(* list or rich text is <<>>.                                              *)
(***************************************************************************)
NoPage ==
    ("parent" :> "None") @@ ("Migration status" :> "None") @@ ("Status" :> "None") @@
    ("Task/project/activity" :> "None") @@ ("Parent item" :> <<>>) @@
    ("Subtask" :> <<>>) @@ ("Projects" :> <<>>) @@ ("Tasks" :> <<>>) @@
    ("Parent projects to transfer" :> <<>>) @@ ("Subtasks to transfer" :> <<>>) @@
    ("to delete" :> <<>>) @@ ("In charge" :> <<>>) @@ ("Participants" :> <<>>) @@
    ("Importance" :> "None") @@ ("Deadline" :> "None") @@
    ("Comments & updates" :> "None") @@ ("Type" :> "None") @@ ("Impact" :> "None") @@
    ("Owner" :> <<>>) @@ ("Comments" :> "None") @@
    ("Start and end dates (approximate)" :> "None")

Exists(id) == id \in Ids /\ pages[id]["parent"] # "None"

\* a store call on an existing page fails (throws) or succeeds, and at most
\* MaxFails calls fail; a call on a page that does not exist always throws
Outcomes(id) ==
    IF ~Exists(id) THEN {FALSE}
    ELSE IF fails < MaxFails THEN {TRUE, FALSE} ELSE {TRUE}
Count(id, ok) == fails' = IF ok \/ ~Exists(id) THEN fails ELSE fails + 1

\* client.pages.update({page_id, properties}): the named properties are
\* replaced, every other property is kept.  'Subtask' is the mirror of
\* 'Parent item': clearing it on a project drops the project from the
\* 'Parent item' relation of every other page.
StoreUpdate(pgs, id, props) ==
    [r \in Ids |->
        IF r = id
        THEN [f \in DOMAIN pgs[r] |-> IF f \in DOMAIN props THEN props[f] ELSE pgs[r][f]]
        ELSE IF "Subtask" \in DOMAIN props /\ props["Subtask"] = <<>>
             THEN [pgs[r] EXCEPT !["Parent item"] = Without(@, id)]
             ELSE pgs[r]]

\* client.pages.create({parent: {database_id}, properties}); a 'Parent item'
\* relation shows up in the 'Subtask' relation of the pages it names
StoreCreate(pgs, id, database, props) ==
    [r \in Ids |->
        IF r = id
        THEN [f \in DOMAIN NoPage |->
                IF f = "parent" THEN database
                ELSE IF f \in DOMAIN props THEN props[f] ELSE NoPage[f]]
        ELSE IF "Parent item" \in DOMAIN props /\ r \in Range(props["Parent item"])
             THEN [pgs[r] EXCEPT !["Subtask"] = Append(@, id)]
             ELSE pgs[r]]

(***************************************************************************)
(* The orchestrator.                                                       *)
(***************************************************************************)
Steps == {"init", "created", "saving-relations", "handling-subtasks",
          "await-manual-move", "verifying", "moved", "confirm-update",
          "updating", "complete", "error"}
Keys == {"y", "n", "c", "q", "return"}

TestTask == "p1"
TestSubtask == "s1"

\* a failure that shows the error and lets the running step try again
OrchFailRetries == step' = "error" /\ error' = TRUE /\ opc' = opc

\* setState(prev => ({...prev, error: ..., step: 'error'}))
OrchFail == step' = "error" /\ error' = TRUE /\ opc' = "idle"

\* the mount effect: no token -> error, else create the client and start
Mount ==
    /\ opc = "mount"
    /\ \E token \in BOOLEAN :
        IF ~token
        THEN OrchFail /\ UNCHANGED client
        ELSE client' = TRUE /\ opc' = "init-task" /\ UNCHANGED <<step, error>>
    /\ UNCHANGED <<pages, fails, taskId, oloc, effDeps, exited, batchVars, fn, second>>

\* the effect with an empty list of auto-executed steps
AutoEffectNoSteps ==
    /\ opc # "mount"
    /\ effDeps # <<step, client, taskId>>
    /\ effDeps' = <<step, client, taskId>>
    /\ opc' = opc
    /\ UNCHANGED <<pages, fails, step, error, client, taskId, oloc, exited, batchVars, fn, second>>

\* the effect that auto-executes steps; it runs when [state.step, client,
\* state.taskId] differ from the previous render's
AutoEffect ==
    /\ opc # "mount"
    /\ effDeps # <<step, client, taskId>>
    /\ effDeps' = <<step, client, taskId>>
    /\ IF client /\ taskId # "none" /\ step \in {"handling-subtasks"}
       THEN opc' = "hs-retrieve"
       ELSE opc' = opc
    /\ UNCHANGED <<pages, fails, step, error, client, taskId, oloc, exited, batchVars, fn, second>>

\* createTestTask: the project page
InitCreateTask ==
    /\ opc = "init-task"
    /\ \E ok \in (IF fails < MaxFails THEN {TRUE, FALSE} ELSE {TRUE}) :
        /\ fails' = IF ok THEN fails ELSE fails + 1
        /\ IF ok
           THEN /\ pages' = StoreCreate(pages, TestTask, "Tasks",
                        ("Task/project/activity" :> "Project") @@ ("Status" :> "Done") @@
                        ("Deadline" :> "2024-12-31") @@ ("In charge" :> <<"u1">>) @@
                        ("Importance" :> "stars4") @@ ("Comments & updates" :> "text") @@
                        ("Projects" :> <<"x1">>))
                /\ opc' = "init-subtask"
                /\ UNCHANGED <<step, error>>
           ELSE OrchFail /\ UNCHANGED pages
    /\ UNCHANGED <<client, taskId, oloc, effDeps, exited, batchVars, fn, second>>

\* createTestTask: the subtask, which names the project as its 'Parent item'
InitCreateSubtask ==
    /\ opc = "init-subtask"
    /\ \E ok \in (IF fails < MaxFails THEN {TRUE, FALSE} ELSE {TRUE}) :
        /\ fails' = IF ok THEN fails ELSE fails + 1
        /\ IF ok
           THEN /\ pages' = StoreCreate(pages, TestSubtask, "Tasks",
                        ("Task/project/activity" :> "Task") @@ ("Status" :> "Done") @@
                        ("Comments & updates" :> "text") @@
                        ("Parent item" :> <<TestTask>>))
                /\ opc' = "init-validate"
                /\ UNCHANGED <<step, error>>
           ELSE OrchFail /\ UNCHANGED pages
    /\ UNCHANGED <<client, taskId, oloc, effDeps, exited, batchVars, fn, second>>

\* validateProjectForMigration, then startMigration's setState
InitValidate ==
    /\ opc = "init-validate"
    /\ \E ok \in Outcomes(TestTask) :
        /\ Count(TestTask, ok)
        /\ IF ok /\ pages[TestTask]["Task/project/activity"] = "Project"
              /\ Len(pages[TestTask]["Parent item"]) = 0
           THEN /\ step' = "created"
                /\ taskId' = TestTask
                /\ opc' = "idle"
                /\ UNCHANGED error
           ELSE OrchFail /\ UNCHANGED taskId
    /\ UNCHANGED <<pages, client, oloc, effDeps, exited, batchVars, fn, second>>

\* executeStep(s): sets the step and starts the step's first store call
ExecuteStep(s) ==
    IF ~client \/ taskId = "none"
    THEN UNCHANGED <<step, opc>>
    ELSE /\ step' = s
         /\ opc' = CASE s = "saving-relations" -> "save-retrieve"
                     [] s = "handling-subtasks" -> "hs-retrieve"
                     [] s = "verifying" -> "verify-retrieve"
                     [] s = "updating" -> "upd-retrieve"

\* useInput handler
KeyPress ==
    /\ ~exited
    /\ \E input \in Keys :
        /\ \/ step = "created" /\ input = "y"
           \/ step = "created" /\ input = "n"
           \/ step = "await-manual-move" /\ input = "c"
           \/ step = "moved" /\ input = "y"
           \/ step = "moved" /\ input = "n"
           \/ step \in {"complete", "error"} /\ input \in {"return", "q"}
        /\ IF step = "created" /\ input = "y"
             THEN ExecuteStep("saving-relations") /\ UNCHANGED exited
           ELSE IF step = "created" /\ input = "n"
             THEN step' = "complete" /\ UNCHANGED <<opc, exited>>
           ELSE IF step = "await-manual-move" /\ input = "c"
             THEN ExecuteStep("verifying") /\ UNCHANGED exited
           ELSE IF step = "moved" /\ input = "y"
             THEN ExecuteStep("updating") /\ UNCHANGED exited
           ELSE IF step = "moved" /\ input = "n"
             THEN step' = "complete" /\ UNCHANGED <<opc, exited>>
           ELSE exited' = TRUE /\ UNCHANGED <<step, opc>>
    /\ UNCHANGED <<pages, fails, error, client, taskId, oloc, effDeps, batchVars, fn, second>>

\* the operator moves the test page to the Projects database in the Notion UI
ManualMove ==
    /\ ~exited
    /\ Exists(TestTask)
    /\ pages[TestTask]["parent"] = "Tasks"
    /\ pages' = [pages EXCEPT ![TestTask]["parent"] = "Projects"]
    /\ UNCHANGED <<fails, orchVars, fn, second, batchVars>>

\* saveProjectsRelationBeforeMove: retrieve the task; with no 'Projects'
\* relation the step succeeds at once, else the URL list is computed
SaveRetrieve ==
    /\ opc = "save-retrieve"
    /\ \E ok \in Outcomes(taskId) :
        /\ Count(taskId, ok)
        /\ IF ~ok
           THEN OrchFail /\ UNCHANGED oloc
           ELSE IF Len(pages[taskId]["Projects"]) > 0
           THEN /\ oloc' = [text |-> JoinCommaSpace(MapSeq(pages[taskId]["Projects"], UrlTok))]
                /\ opc' = "save-update"
                /\ UNCHANGED <<step, error>>
           ELSE /\ step' = "handling-subtasks"
                /\ opc' = "idle"
                /\ UNCHANGED <<error, oloc>>
    /\ UNCHANGED <<pages, client, taskId, effDeps, exited, batchVars, fn, second>>

\* saveProjectsRelationBeforeMove: write 'Parent projects to transfer'
SaveUpdate ==
    /\ opc = "save-update"
    /\ \E ok \in Outcomes(taskId) :
        /\ Count(taskId, ok)
        /\ IF ok
           THEN /\ pages' = StoreUpdate(pages, taskId, "Parent projects to transfer" :> oloc.text)
                /\ step' = "handling-subtasks"
                /\ opc' = "idle"
                /\ UNCHANGED error
           ELSE OrchFail /\ UNCHANGED pages
    /\ oloc' = [text |-> <<>>]
    /\ UNCHANGED <<client, taskId, effDeps, exited, batchVars, fn, second>>

\* the page-retrieve view of a relation: has_more is set when the relation
\* holds more entries than one page of results
RelationPageSize == 2
HasMore(rel) == Len(rel) > RelationPageSize

\* HsRetrieve where the has_more flag of the 'Subtask' relation is not looked at
HsRetrieveIgnoresHasMore ==
    /\ opc = "hs-retrieve"
    /\ \E ok \in Outcomes(taskId) :
        /\ Count(taskId, ok)
        /\ IF ~ok
           THEN OrchFail /\ UNCHANGED oloc
           ELSE IF Len(pages[taskId]["Subtask"]) = 0
           THEN /\ step' = "await-manual-move"
                /\ opc' = "idle"
                /\ UNCHANGED <<error, oloc>>
           ELSE /\ oloc' = [text |-> JoinCommaSpace(MapSeq(pages[taskId]["Subtask"], IdTok))]
                /\ opc' = "hs-update"
                /\ UNCHANGED <<step, error>>
    /\ UNCHANGED <<pages, client, taskId, effDeps, exited, batchVars, fn, second>>

\* handleSubtaskConnections: retrieve the project and read 'Subtask'
HsRetrieve ==
    /\ opc = "hs-retrieve"
    /\ \E ok \in Outcomes(taskId) :
        /\ Count(taskId, ok)
        /\ IF ~ok \/ HasMore(pages[taskId]["Subtask"])
           THEN OrchFail /\ UNCHANGED oloc
           ELSE IF Len(pages[taskId]["Subtask"]) = 0
           THEN /\ step' = "await-manual-move"
                /\ opc' = "idle"
                /\ UNCHANGED <<error, oloc>>
           ELSE /\ oloc' = [text |-> JoinCommaSpace(MapSeq(pages[taskId]["Subtask"], IdTok))]
                /\ opc' = "hs-update"
                /\ UNCHANGED <<step, error>>
    /\ UNCHANGED <<pages, client, taskId, effDeps, exited, batchVars, fn, second>>

\* HsUpdate that clears the relation and leaves the ids for a later update
HsUpdateClearsFirst ==
    /\ opc = "hs-update"
    /\ \E ok \in Outcomes(taskId) :
        /\ Count(taskId, ok)
        /\ IF ok
           THEN /\ pages' = StoreUpdate(pages, taskId, "Subtask" :> <<>>)
                /\ step' = "await-manual-move"
                /\ opc' = "idle"
                /\ UNCHANGED error
           ELSE OrchFail /\ UNCHANGED pages
    /\ oloc' = [text |-> <<>>]
    /\ UNCHANGED <<client, taskId, effDeps, exited, batchVars, fn, second>>

\* HsUpdate with a wrong next step: the wait for the manual move is skipped
HsUpdateSkipsWait ==
    /\ opc = "hs-update"
    /\ \E ok \in Outcomes(taskId) :
        /\ Count(taskId, ok)
        /\ IF ok
           THEN /\ pages' = StoreUpdate(pages, taskId,
                        ("Subtasks to transfer" :> oloc.text) @@ ("Subtask" :> <<>>))
                /\ step' = "verifying"
                /\ opc' = "verify-retrieve"
                /\ UNCHANGED error
           ELSE OrchFail /\ UNCHANGED pages
    /\ oloc' = [text |-> <<>>]
    /\ UNCHANGED <<client, taskId, effDeps, exited, batchVars, fn, second>>

\* handleSubtaskConnections: one update writes 'Subtasks to transfer' and
\* clears 'Subtask'
HsUpdate ==
    /\ opc = "hs-update"
    /\ \E ok \in Outcomes(taskId) :
        /\ Count(taskId, ok)
        /\ IF ok
           THEN /\ pages' = StoreUpdate(pages, taskId,
                        ("Subtasks to transfer" :> oloc.text) @@ ("Subtask" :> <<>>))
                /\ step' = "await-manual-move"
                /\ opc' = "idle"
                /\ UNCHANGED error
           ELSE OrchFail /\ UNCHANGED pages
    /\ oloc' = [text |-> <<>>]
    /\ UNCHANGED <<client, taskId, effDeps, exited, batchVars, fn, second>>

\* VerifyRetrieve where a thrown store error is treated as fatal
VerifyRetrieveFatal ==
    /\ opc = "verify-retrieve"
    /\ \E ok \in Outcomes(taskId) :
        /\ Count(taskId, ok)
        /\ IF ~ok
           THEN OrchFail
           ELSE /\ opc' = "idle"
                /\ IF pages[taskId]["parent"] = "Projects"
                   THEN step' = "moved" /\ UNCHANGED error
                   ELSE step' = "await-manual-move" /\ error' = TRUE
    /\ UNCHANGED <<pages, client, taskId, oloc, effDeps, exited, batchVars, fn, second>>

\* VerifyRetrieve where a failed verification leaves the orchestrator in verifying
VerifyRetrieveGivesUp ==
    /\ opc = "verify-retrieve"
    /\ \E ok \in Outcomes(taskId) :
        /\ Count(taskId, ok)
        /\ IF ok /\ pages[taskId]["parent"] = "Projects"
           THEN step' = "moved" /\ UNCHANGED error
           ELSE step' = "verifying" /\ error' = TRUE
    /\ opc' = "idle"
    /\ UNCHANGED <<pages, client, taskId, oloc, effDeps, exited, batchVars, fn, second>>

\* VerifyRetrieve where a page that was retrieved counts as moved, wherever it is
VerifyRetrieveAnyParent ==
    /\ opc = "verify-retrieve"
    /\ \E ok \in Outcomes(taskId) :
        /\ Count(taskId, ok)
        /\ IF ok
           THEN step' = "moved" /\ UNCHANGED error
           ELSE step' = "await-manual-move" /\ error' = TRUE
    /\ opc' = "idle"
    /\ UNCHANGED <<pages, client, taskId, oloc, effDeps, exited, batchVars, fn, second>>

\* verifyPageInProjectsDB: any failure, a thrown store error included, sends
\* the orchestrator back to await-manual-move
VerifyRetrieve ==
    /\ opc = "verify-retrieve"
    /\ \E ok \in Outcomes(taskId) :
        /\ Count(taskId, ok)
        /\ IF ok /\ pages[taskId]["parent"] = "Projects"
           THEN step' = "moved" /\ UNCHANGED error
           ELSE step' = "await-manual-move" /\ error' = TRUE
    /\ opc' = "idle"
    /\ UNCHANGED <<pages, client, taskId, oloc, effDeps, exited, batchVars, fn, second>>

\* the sparse payload of updatePropertiesForProjectsDB: one entry per source
\* property that has a value
Opt(cond, name, value) == IF cond THEN name :> value ELSE <<>>
UpdatedProperties(page) ==
    LET parentIds == DecodeUrls(page["Parent projects to transfer"])
    IN  Opt(page["Status"] = "Done", "Status", "Completed") @@
        Opt(page["Status"] = "Cancelled", "Status", "Cancelled") @@
        Opt(page["Task/project/activity"] # "None", "Type", page["Task/project/activity"]) @@
        Opt(page["Importance"] # "None", "Impact", page["Importance"]) @@
        ("Comments" :> page["Comments & updates"]) @@
        Opt(Len(page["In charge"]) = 1, "Owner", page["In charge"]) @@
        Opt(page["Deadline"] # "None", "Start and end dates (approximate)", page["Deadline"]) @@
        Opt(Len(parentIds) > 0, "Parent item", parentIds) @@
        Opt(Len(parentIds) > 0, "to delete", <<Note(Len(parentIds))>>)

\* updatePropertiesForProjectsDB: retrieve the task and build the payload
UpdRetrieve ==
    /\ opc = "upd-retrieve"
    /\ \E ok \in Outcomes(taskId) :
        /\ Count(taskId, ok)
        /\ IF ok
           THEN /\ oloc' = [props |-> UpdatedProperties(pages[taskId])]
                /\ opc' = "upd-update"
                /\ UNCHANGED <<step, error>>
           ELSE OrchFail /\ UNCHANGED oloc
    /\ UNCHANGED <<pages, client, taskId, effDeps, exited, batchVars, fn, second>>

\* updatePropertiesForProjectsDB: the property update
UpdUpdate ==
    /\ opc = "upd-update"
    /\ \E ok \in Outcomes(taskId) :
        /\ Count(taskId, ok)
        /\ IF ok
           THEN /\ pages' = StoreUpdate(pages, taskId, oloc.props)
                /\ opc' = "rs-retrieve"
                /\ UNCHANGED <<step, error>>
           ELSE OrchFail /\ UNCHANGED pages
    /\ oloc' = [text |-> <<>>]
    /\ UNCHANGED <<client, taskId, effDeps, exited, batchVars, fn, second>>

\* restoreSubtaskConnections: read 'Subtasks to transfer' of the moved project
RsRetrieve ==
    /\ opc = "rs-retrieve"
    /\ \E ok \in Outcomes(taskId) :
        /\ Count(taskId, ok)
        /\ LET ids == DecodeIds(pages[taskId]["Subtasks to transfer"], <<Comma, Space>>)
           IN  IF ~ok
               THEN OrchFail /\ UNCHANGED oloc
               ELSE IF Len(ids) = 0
               THEN /\ step' = "complete"
                    /\ opc' = "idle"
                    /\ UNCHANGED <<error, oloc>>
               ELSE /\ oloc' = [ids |-> ids, k |-> 1, existing |-> <<>>]
                    /\ opc' = "rs-sub-retrieve"
                    /\ UNCHANGED <<step, error>>
    /\ UNCHANGED <<pages, client, taskId, effDeps, exited, batchVars, fn, second>>

\* after subtask k: the next subtask, or the final write of the note
RsNext(l) ==
    IF l.k < Len(l.ids)
    THEN oloc' = [l EXCEPT !.k = l.k + 1, !.existing = <<>>] /\ opc' = "rs-sub-retrieve"
    ELSE oloc' = [l EXCEPT !.existing = <<>>] /\ opc' = "rs-clear"

\* restoreSubtaskConnections: retrieve subtask k; a failure is logged and
\* the loop goes on
RsSubRetrieve ==
    /\ opc = "rs-sub-retrieve"
    /\ LET sid == oloc.ids[oloc.k] IN
       \E ok \in Outcomes(sid) :
        /\ Count(sid, ok)
        /\ IF ok /\ taskId \notin Range(pages[sid]["Projects"])
           THEN oloc' = [oloc EXCEPT !.existing = pages[sid]["Projects"]] /\ opc' = "rs-sub-update"
           ELSE RsNext(oloc)
    /\ UNCHANGED <<pages, step, error, client, taskId, effDeps, exited, batchVars, fn, second>>

\* restoreSubtaskConnections: append the project to the subtask's 'Projects'
RsSubUpdate ==
    /\ opc = "rs-sub-update"
    /\ LET sid == oloc.ids[oloc.k] IN
       \E ok \in Outcomes(sid) :
        /\ Count(sid, ok)
        /\ pages' = IF ok THEN StoreUpdate(pages, sid, "Projects" :> Append(oloc.existing, taskId))
                    ELSE pages
        /\ RsNext(oloc)
    /\ UNCHANGED <<step, error, client, taskId, effDeps, exited, batchVars, fn, second>>

\* restoreSubtaskConnections: replace the id list by the completion note
RsClear ==
    /\ opc = "rs-clear"
    /\ \E ok \in Outcomes(taskId) :
        /\ Count(taskId, ok)
        /\ IF ok
           THEN /\ pages' = StoreUpdate(pages, taskId,
                        "Subtasks to transfer" :> <<Note(Len(oloc.ids))>>)
                /\ step' = "complete"
                /\ opc' = "idle"
                /\ UNCHANGED error
           ELSE OrchFail /\ UNCHANGED pages
    /\ oloc' = [text |-> <<>>]
    /\ UNCHANGED <<client, taskId, effDeps, exited, batchVars, fn, second>>


(***************************************************************************)
(* The batch steps (`migrate <subcommand>`).                               *)
(***************************************************************************)
\* local variables of a batch step, and the history, before anything ran
NoLoc == [ids |-> <<>>, k |-> 0, acc |-> <<>>, cursor |-> 0, errors |-> {}, rel |-> <<>>]

NoHist == [killed |-> FALSE, verified |-> {}, savedParents |-> {},
           killedCmd |-> "idle", processed |-> {}, rerun |-> FALSE,
           invocations |-> 0, afterFirst |-> <<>>,
           sent |-> [id |-> "none", props |-> <<>>]]

Commands == {"initial-validation", "fix-in-charge", "save-parent-project-relations",
             "save-subtasks-relations", "remove-subtasks", "verify-move",
             "post-move-update", "relink-parent-projects", "relink-subtasks"}

\* the documented order of the steps; the manual move comes after the fifth
Pipeline == <<"initial-validation", "fix-in-charge", "save-parent-project-relations",
              "save-subtasks-relations", "remove-subtasks", "verify-move",
              "post-move-update", "relink-parent-projects", "relink-subtasks">>
SourceSteps == 5

\* the earlier revision of relink-subtasks, which appends the project to the
\* 'Projects' relation of each subtask
RelinkAppend == "relink-subtasks-append"

\* the modes in which only one revision of relink-subtasks is run
RelinkModes == {"relink-replace", "relink-append"}

\* the subcommands the operator runs in a mode: all of them, or one only
ModeCommands(m) ==
    CASE m = "any" -> Commands
      [] m = "relink-replace" -> {"relink-subtasks"}
      [] m = "relink-append" -> {RelinkAppend}
      [] m = "validate" -> {"initial-validation"}
      [] m = "fix" -> {"fix-in-charge"}
      [] m = "verify" -> {"verify-move"}
      [] m = "post-move" -> {"post-move-update"}
      [] m = "relink-parents" -> {"relink-parent-projects"}
      [] m = "save-parents" -> {"save-parent-project-relations"}
      [] m = "save-subtasks" -> {"save-subtasks-relations"}
      [] OTHER -> {}

DestinationCommands == {"verify-move", "post-move-update", "relink-parent-projects",
                        "relink-subtasks", RelinkAppend}

\* the relation lists the relink steps write
RelationLists(pgs) == [r \in Ids |-> [Projects |-> pgs[r]["Projects"], Tasks |-> pgs[r]["Tasks"]]]

QueryOrder == <<"p1", "p2", "s1", "s2">>

\* databases.query filtered by 'Migration status': snapshots of the matching
\* pages of one database, in the store's order
QueryResult(database, migrationStatus) ==
    LET hit == SelectSeq(QueryOrder, LAMBDA r :
                    /\ pages[r]["parent"] = database
                    /\ pages[r]["Migration status"] = migrationStatus)
    IN  [n \in 1..Len(hit) |-> [id |-> hit[n], properties |-> pages[hit[n]]]]

CallOutcomes == IF fails < MaxFails THEN {TRUE, FALSE} ELSE {TRUE}

\* a parent project (outside the two databases) or a page of them
PageOutcomes(id) == IF id \in ParentIds THEN CallOutcomes ELSE Outcomes(id)
PageCount(id, ok) == fails' = IF ok \/ (id \notin ParentIds /\ ~Exists(id)) THEN fails ELSE fails + 1

\* setResult(...): the subcommand ends
Finish(res) ==
    /\ cmd' = "idle" /\ pc' = "idle" /\ projects' = <<>> /\ i' = 0 /\ loc' = NoLoc
    /\ result' = res
    /\ runs' = IF mode = "pipeline" /\ res = "success" THEN runs + 1 ELSE runs

\* the loop head of each subcommand
LoopHead(c) ==
    CASE c = "initial-validation" -> "v-check"
      [] c = "fix-in-charge" -> "f-scan"
      [] c = "save-parent-project-relations" -> "sp-check"
      [] c = "save-subtasks-relations" -> "gar-retrieve"
      [] c = "remove-subtasks" -> "rm-update"
      [] c = "post-move-update" -> "pm-update"
      [] c = "relink-parent-projects" -> "rp-check"
      [] c = "relink-subtasks" -> "rl-check"
      [] c = RelinkAppend -> "rl-check"
      [] OTHER -> "done"

\* the record is done: go on with the next one, or report success
NextRecord(outcome) ==
    /\ report' = Append(report, [id |-> projects[i].id, outcome |-> outcome,
                                  errors |-> loc.errors, acc |-> loc.acc])
    /\ IF i < Len(projects)
       THEN /\ i' = i + 1 /\ pc' = LoopHead(cmd) /\ loc' = NoLoc
            /\ UNCHANGED <<cmd, projects, result, runs>>
       ELSE IF cmd = "fix-in-charge"
       THEN /\ pc' = "f-scanned" /\ loc' = NoLoc
            /\ UNCHANGED <<cmd, projects, i, result, runs>>
       ELSE Finish("success")

\* the operator starts a subcommand; without a token it fails at once
Start ==
    /\ cmd = "idle"
    /\ \E c \in Commands \cup {RelinkAppend}, token \in BOOLEAN :
        /\ IF mode = "pipeline"
           THEN runs < Len(Pipeline) /\ c = Pipeline[runs + 1]
           ELSE runs < MaxRuns /\ c \in ModeCommands(mode)
        /\ report' = <<>>
        /\ IF token
           THEN /\ cmd' = c /\ pc' = "query" /\ result' = "none"
                /\ runs' = IF mode = "pipeline" THEN runs ELSE runs + 1
           ELSE /\ result' = "failure"
                /\ runs' = IF mode = "pipeline" THEN runs ELSE runs + 1
                /\ UNCHANGED <<cmd, pc>>
        /\ hist' = [hist EXCEPT !.rerun = token /\ result = "killed" /\ c = hist.killedCmd,
                                 !.invocations = IF mode \in RelinkModes /\ token
                                                 THEN @ + 1 ELSE @,
                                 !.afterFirst = IF mode \in RelinkModes /\ hist.invocations = 1
                                                THEN RelationLists(pages) ELSE @]
    /\ UNCHANGED <<pages, fails, orchVars, fn, second, projects, i, loc, mode>>

\* a query step that takes a failed query for an empty working set
QueryFailureIsEmpty ==
    /\ cmd # "idle" /\ pc = "query"
    /\ \E ok \in CallOutcomes :
        /\ fails' = IF ok THEN fails ELSE fails + 1
        /\ LET found == QueryResult(IF cmd \in DestinationCommands THEN "Projects" ELSE "Tasks",
                                    "Project to migrate")
           IN  IF ~ok \/ Len(found) = 0 \/ cmd = "verify-move"
               THEN Finish("success")
               ELSE /\ projects' = found /\ i' = 1 /\ pc' = LoopHead(cmd) /\ loc' = NoLoc
                    /\ UNCHANGED <<cmd, result, runs>>
        /\ hist' = IF ok /\ cmd = "verify-move"
                   THEN [hist EXCEPT !.verified = {r \in Ids :
                            pages[r]["parent"] = "Projects"
                            /\ pages[r]["Migration status"] = "Project to migrate"}]
                   ELSE hist
    /\ UNCHANGED <<pages, orchVars, fn, second, report, mode>>

\* a query step that reports an empty result of verify-move as a failure
QueryEmptyIsFailure ==
    /\ cmd # "idle" /\ pc = "query"
    /\ \E ok \in CallOutcomes :
        /\ fails' = IF ok THEN fails ELSE fails + 1
        /\ LET found == QueryResult(IF cmd \in DestinationCommands THEN "Projects" ELSE "Tasks",
                                    "Project to migrate")
           IN  IF ~ok \/ (cmd = "verify-move" /\ Len(found) = 0)
               THEN Finish("failure")
               ELSE IF Len(found) = 0 \/ cmd = "verify-move"
               THEN Finish("success")
               ELSE /\ projects' = found /\ i' = 1 /\ pc' = LoopHead(cmd) /\ loc' = NoLoc
                    /\ UNCHANGED <<cmd, result, runs>>
        /\ hist' = IF ok /\ cmd = "verify-move"
                   THEN [hist EXCEPT !.verified = {r \in Ids :
                            pages[r]["parent"] = "Projects"
                            /\ pages[r]["Migration status"] = "Project to migrate"}]
                   ELSE hist
    /\ UNCHANGED <<pages, orchVars, fn, second, report, mode>>

\* getProjectsByMigrationStatus / getProjectsInProjectsDB
Query ==
    /\ cmd # "idle" /\ pc = "query"
    /\ \E ok \in CallOutcomes :
        /\ fails' = IF ok THEN fails ELSE fails + 1
        /\ LET found == QueryResult(IF cmd \in DestinationCommands THEN "Projects" ELSE "Tasks",
                                    "Project to migrate")
           IN  IF ~ok
               THEN Finish("failure")
               ELSE IF Len(found) = 0 \/ cmd = "verify-move"
               THEN Finish("success")
               ELSE /\ projects' = found /\ i' = 1 /\ pc' = LoopHead(cmd) /\ loc' = NoLoc
                    /\ UNCHANGED <<cmd, result, runs>>
        /\ hist' = IF ok /\ cmd = "verify-move"
                   THEN [hist EXCEPT !.verified = {r \in Ids :
                            pages[r]["parent"] = "Projects"
                            /\ pages[r]["Migration status"] = "Project to migrate"}]
                   ELSE hist
    /\ UNCHANGED <<pages, orchVars, fn, second, report, mode>>

\* the process is killed between two store calls
Kill ==
    /\ cmd # "idle"
    /\ cmd' = "idle" /\ pc' = "idle" /\ projects' = <<>> /\ i' = 0 /\ loc' = NoLoc
    /\ result' = "killed"
    /\ hist' = [hist EXCEPT !.killed = TRUE, !.killedCmd = cmd,
                             !.processed = {report[n].id : n \in {m \in 1..Len(report) :
                                report[m].outcome \notin {"error", "invalid", "assign-failed"}}}]
    /\ UNCHANGED <<pages, fails, orchVars, fn, second, report, runs, mode>>

\* the operator moves a marked record to the Projects database in the UI
OperatorMove ==
    /\ cmd = "idle"
    /\ mode = "pipeline" => runs = SourceSteps
    /\ \E r \in Ids :
        /\ pages[r]["parent"] = "Tasks"
        /\ pages[r]["Migration status"] = "Project to migrate"
        /\ pages' = [pages EXCEPT ![r]["parent"] = "Projects"]
    /\ UNCHANGED <<fails, orchVars, fn, second, batchVars>>

\* the current record of the working set
Cur == projects[i]

Stay(newpc, newloc) ==
    /\ pc' = newpc /\ loc' = newloc
    /\ UNCHANGED <<cmd, projects, i, report, result, runs>>

\* an exception reaches the outer catch of the subcommand: the run ends
Abort == Finish("failure") /\ UNCHANGED report

\* ---- getAllRelationIds(client, project.id, 'Subtask')

\* what the caller does with the result of getAllRelationIds
GarDone(ok, ids) ==
    IF cmd = "initial-validation"
    THEN LET errs == loc.errors \cup (IF ok THEN {} ELSE {"subtasks"})
         IN  IF errs # {}
             THEN Stay("v-mark", [NoLoc EXCEPT !.errors = errs])
             ELSE NextRecord("valid")
    ELSE IF ~ok
         THEN Stay("mark-error", [NoLoc EXCEPT !.errors = {"subtasks"}])
         ELSE IF Len(ids) = 0
         THEN NextRecord("skipped")
         ELSE Stay("ss-sub-retrieve", [NoLoc EXCEPT !.ids = ids, !.k = 1])

\* pages.retrieve, to find the property id
GarRetrieve ==
    /\ pc = "gar-retrieve"
    /\ \E ok \in Outcomes(Cur.id) :
        /\ Count(Cur.id, ok)
        /\ IF ok
           THEN Stay("gar-page", [loc EXCEPT !.ids = <<>>, !.cursor = 0])
           ELSE GarDone(FALSE, <<>>)
    /\ UNCHANGED <<pages, orchVars, fn, second, mode, hist>>

\* GarPage that stops after the first page, whatever has_more says
GarPageFirstOnly ==
    /\ pc = "gar-page"
    /\ \E ok \in Outcomes(Cur.id) :
        /\ Count(Cur.id, ok)
        /\ LET rel == pages[Cur.id]["Subtask"]
               upto == IF loc.cursor + RelationPageSize < Len(rel)
                       THEN loc.cursor + RelationPageSize ELSE Len(rel)
               all == loc.ids \o SubSeq(rel, loc.cursor + 1, upto)
           IN  IF ~ok THEN GarDone(FALSE, <<>>)
               ELSE GarDone(TRUE, all)
    /\ UNCHANGED <<pages, orchVars, fn, second, mode, hist>>

\* pages.properties.retrieve with start_cursor: one page of the relation
GarPage ==
    /\ pc = "gar-page"
    /\ \E ok \in Outcomes(Cur.id) :
        /\ Count(Cur.id, ok)
        /\ LET rel == pages[Cur.id]["Subtask"]
               upto == IF loc.cursor + RelationPageSize < Len(rel)
                       THEN loc.cursor + RelationPageSize ELSE Len(rel)
               all == loc.ids \o SubSeq(rel, loc.cursor + 1, upto)
           IN  IF ~ok THEN GarDone(FALSE, <<>>)
               ELSE IF upto < Len(rel)
               THEN Stay("gar-page", [loc EXCEPT !.ids = all, !.cursor = upto])
               ELSE GarDone(TRUE, all)
    /\ UNCHANGED <<pages, orchVars, fn, second, mode, hist>>

\* ---- initial-validation

\* the messages of the first two checks name the value that was found
StatusError(status) == "Status is " \o status
TypeError(taskProjectActivity) == "Task/project/activity is " \o taskProjectActivity

\* a validator without the third check, the one of 'Parent item'
ValidationErrorsNoParentCheck(properties) ==
    (IF properties["Status"] \notin {"Done", "Cancelled", "Ongoing"}
     THEN {StatusError(properties["Status"])} ELSE {})
    \cup (IF properties["Task/project/activity"] \notin {"Project", "Activity"}
          THEN {TypeError(properties["Task/project/activity"])} ELSE {})

\* a validate step that marks every record it has looked at
VCheckMarksAll ==
    /\ pc = "v-check"
    /\ Stay("v-mark", [NoLoc EXCEPT !.errors = {}])
    /\ UNCHANGED <<pages, fails, orchVars, fn, second, mode, hist>>

\* the error list validateProject accumulates from the snapshot
ValidationErrors(properties) ==
    (IF properties["Status"] \notin {"Done", "Cancelled", "Ongoing"}
     THEN {StatusError(properties["Status"])} ELSE {})
    \cup (IF properties["Task/project/activity"] \notin {"Project", "Activity"}
          THEN {TypeError(properties["Task/project/activity"])} ELSE {})
    \cup (IF Len(properties["Parent item"]) > 0 THEN {"parent"} ELSE {})

\* validateProject up to its first store call
VCheck ==
    /\ pc = "v-check"
    /\ LET errs == ValidationErrors(Cur.properties)
       IN  IF Len(Cur.properties["Subtask"]) > 0 /\ HasMore(Cur.properties["Subtask"])
           THEN Stay("gar-retrieve", [NoLoc EXCEPT !.errors = errs])
           ELSE IF errs # {}
           THEN Stay("v-mark", [NoLoc EXCEPT !.errors = errs])
           ELSE NextRecord("valid")
    /\ UNCHANGED <<pages, fails, orchVars, fn, second, mode, hist>>

\* validateProject: write the Error marker of an invalid record
VMark ==
    /\ pc = "v-mark"
    /\ \E ok \in Outcomes(Cur.id) :
        /\ Count(Cur.id, ok)
        /\ IF ok
           THEN /\ pages' = StoreUpdate(pages, Cur.id, "Migration status" :> "Error")
                /\ NextRecord("invalid")
           ELSE Abort /\ UNCHANGED pages
    /\ UNCHANGED <<orchVars, fn, second, mode, hist>>

\* ---- the per-record catch of the save and relink steps: mark the record
MarkError ==
    /\ pc = "mark-error"
    /\ \E ok \in Outcomes(Cur.id) :
        /\ Count(Cur.id, ok)
        /\ IF ok
           THEN /\ pages' = StoreUpdate(pages, Cur.id, "Migration status" :> "Error")
                /\ NextRecord("error")
           ELSE Abort /\ UNCHANGED pages
    /\ UNCHANGED <<orchVars, fn, second, mode, hist>>

\* ---- save-parent-project-relations

\* SpCheck that takes a record without parent projects for a failure
SpCheckEmptyIsError ==
    /\ pc = "sp-check"
    /\ IF Len(Cur.properties["Parent projects to transfer"]) > 0
       THEN Stay("mark-error", [NoLoc EXCEPT !.errors = {"already filled"}])
       ELSE IF Len(Cur.properties["Projects"]) = 0
       THEN Stay("mark-error", [NoLoc EXCEPT !.errors = {"no parents"}])
       ELSE Stay("sp-parent", [NoLoc EXCEPT !.ids = Cur.properties["Projects"], !.k = 1])
    /\ UNCHANGED <<pages, fails, orchVars, fn, second, mode, hist>>

\* SpCheck without the look at the transfer field
SpCheckNoGuard ==
    /\ pc = "sp-check"
    /\ IF Len(Cur.properties["Projects"]) = 0
       THEN NextRecord("skipped")
       ELSE Stay("sp-parent", [NoLoc EXCEPT !.ids = Cur.properties["Projects"], !.k = 1])
    /\ UNCHANGED <<pages, fails, orchVars, fn, second, mode, hist>>

\* the record up to its first store call
SpCheck ==
    /\ pc = "sp-check"
    /\ IF Len(Cur.properties["Parent projects to transfer"]) > 0
       THEN Stay("mark-error", [NoLoc EXCEPT !.errors = {"already filled"}])
       ELSE IF Len(Cur.properties["Projects"]) = 0
       THEN NextRecord("skipped")
       ELSE Stay("sp-parent", [NoLoc EXCEPT !.ids = Cur.properties["Projects"], !.k = 1])
    /\ UNCHANGED <<pages, fails, orchVars, fn, second, mode, hist>>

\* fetch the title of parent k for display; a failure is tolerated
SpParent ==
    /\ pc = "sp-parent"
    /\ \E ok \in PageOutcomes(loc.ids[loc.k]) :
        /\ PageCount(loc.ids[loc.k], ok)
        /\ IF loc.k < Len(loc.ids)
           THEN Stay("sp-parent", [loc EXCEPT !.k = loc.k + 1])
           ELSE Stay("sp-update", loc)
    /\ UNCHANGED <<pages, orchVars, fn, second, mode, hist>>

\* write the id list to 'Parent projects to transfer'
SpUpdate ==
    /\ pc = "sp-update"
    /\ \E ok \in Outcomes(Cur.id) :
        /\ Count(Cur.id, ok)
        /\ IF ok
           THEN /\ pages' = StoreUpdate(pages, Cur.id,
                    "Parent projects to transfer" :> JoinCommaSpace(MapSeq(loc.ids, IdTok)))
                /\ hist' = [hist EXCEPT !.savedParents = @ \cup {Cur.id}]
                /\ NextRecord("saved")
           ELSE /\ Stay("mark-error", [NoLoc EXCEPT !.errors = {"store"}])
                /\ UNCHANGED <<pages, hist>>
    /\ UNCHANGED <<orchVars, fn, second, mode>>

\* ---- save-subtasks-relations

SsNext(l) ==
    IF l.k < Len(l.ids)
    THEN Stay("ss-sub-retrieve", [l EXCEPT !.k = l.k + 1])
    ELSE Stay("ss-update", l)

\* retrieve subtask k; a failure is tolerated and the id is still saved
SsSubRetrieve ==
    /\ pc = "ss-sub-retrieve"
    /\ \E ok \in Outcomes(loc.ids[loc.k]) :
        /\ Count(loc.ids[loc.k], ok)
        /\ IF ok
           THEN Stay("ss-sub-update", loc)
           ELSE SsNext([loc EXCEPT !.acc = Append(@, "failed")])
    /\ UNCHANGED <<pages, orchVars, fn, second, mode, hist>>

\* SsSubUpdate that writes the marker only
SsSubUpdateMarkerOnly ==
    /\ pc = "ss-sub-update"
    /\ \E ok \in Outcomes(loc.ids[loc.k]) :
        /\ Count(loc.ids[loc.k], ok)
        /\ IF ok
           THEN /\ pages' = StoreUpdate(pages, loc.ids[loc.k],
                        "Migration status" :> "Subtask to relink")
                /\ SsNext([loc EXCEPT !.acc = Append(@, "updated")])
           ELSE /\ SsNext([loc EXCEPT !.acc = Append(@, "failed")])
                /\ UNCHANGED pages
    /\ UNCHANGED <<orchVars, fn, second, mode, hist>>

\* mark subtask k 'Subtask to relink' and point it at the project
SsSubUpdate ==
    /\ pc = "ss-sub-update"
    /\ \E ok \in Outcomes(loc.ids[loc.k]) :
        /\ Count(loc.ids[loc.k], ok)
        /\ IF ok
           THEN /\ pages' = StoreUpdate(pages, loc.ids[loc.k],
                        ("Migration status" :> "Subtask to relink") @@
                        ("Parent projects to transfer" :> <<IdTok(Cur.id)>>))
                /\ SsNext([loc EXCEPT !.acc = Append(@, "updated")])
           ELSE /\ SsNext([loc EXCEPT !.acc = Append(@, "failed")])
                /\ UNCHANGED pages
    /\ UNCHANGED <<orchVars, fn, second, mode, hist>>

\* SsUpdate that also advances the marker of the record it has saved
SsUpdateMarksMigrated ==
    /\ pc = "ss-update"
    /\ \E ok \in Outcomes(Cur.id) :
        /\ Count(Cur.id, ok)
        /\ IF ok
           THEN /\ pages' = StoreUpdate(pages, Cur.id,
                    ("Subtasks to transfer" :> JoinCommaSpace(MapSeq(loc.ids, IdTok))) @@
                    ("Migration status" :> "Migrated"))
                /\ NextRecord("saved")
           ELSE /\ Stay("mark-error", [NoLoc EXCEPT !.errors = {"store"}])
                /\ UNCHANGED pages
    /\ UNCHANGED <<orchVars, fn, second, mode, hist>>

\* write the id list to 'Subtasks to transfer'
SsUpdate ==
    /\ pc = "ss-update"
    /\ \E ok \in Outcomes(Cur.id) :
        /\ Count(Cur.id, ok)
        /\ IF ok
           THEN /\ pages' = StoreUpdate(pages, Cur.id,
                    "Subtasks to transfer" :> JoinCommaSpace(MapSeq(loc.ids, IdTok)))
                /\ NextRecord("saved")
           ELSE /\ Stay("mark-error", [NoLoc EXCEPT !.errors = {"store"}])
                /\ UNCHANGED pages
    /\ UNCHANGED <<orchVars, fn, second, mode, hist>>

\* ---- remove-subtasks

\* clear the 'Subtask' relation; there is no per-record catch
RmUpdate ==
    /\ pc = "rm-update"
    /\ \E ok \in Outcomes(Cur.id) :
        /\ Count(Cur.id, ok)
        /\ IF ok
           THEN /\ pages' = StoreUpdate(pages, Cur.id, "Subtask" :> <<>>)
                /\ NextRecord("removed")
           ELSE Abort /\ UNCHANGED pages
    /\ UNCHANGED <<orchVars, fn, second, mode, hist>>

\* ---- fix-in-charge

IntegrationUser == "integration"

\* the scan of one record up to its first store call
FScan ==
    /\ pc = "f-scan"
    /\ LET inChargeUsers == Cur.properties["In charge"]
       IN  IF Len(inChargeUsers) = 0
           THEN Stay("f-assign", NoLoc)
           ELSE IF Len(inChargeUsers) > 1
           THEN IF Len(Cur.properties["Projects"]) > 0
                THEN Stay("f-parent", [NoLoc EXCEPT !.ids = Cur.properties["Projects"],
                                                    !.k = 1, !.acc = inChargeUsers])
                ELSE NextRecord("multiple")
                     \* loc.acc is empty here, the users are read from the snapshot
           ELSE NextRecord("single")
    /\ UNCHANGED <<pages, fails, orchVars, fn, second, mode, hist>>

\* nobody in charge: assign the integration user; a failure makes the record
\* a problematic project without any user to choose from
FAssign ==
    /\ pc = "f-assign"
    /\ \E ok \in Outcomes(Cur.id) :
        /\ Count(Cur.id, ok)
        /\ IF ok
           THEN /\ pages' = StoreUpdate(pages, Cur.id, "In charge" :> <<IntegrationUser>>)
                /\ NextRecord("assigned")
           ELSE NextRecord("assign-failed") /\ UNCHANGED pages
    /\ UNCHANGED <<orchVars, fn, second, mode, hist>>

\* several in charge: fetch parent k for display; a failure is tolerated
FParent ==
    /\ pc = "f-parent"
    /\ \E ok \in PageOutcomes(loc.ids[loc.k]) :
        /\ PageCount(loc.ids[loc.k], ok)
        /\ IF loc.k < Len(loc.ids)
           THEN Stay("f-parent", [loc EXCEPT !.k = loc.k + 1])
           ELSE NextRecord("multiple")
    /\ UNCHANGED <<pages, orchVars, fn, second, mode, hist>>

\* the scan is over: setProjectsToFix(problematicProjects)
FScanned ==
    /\ pc = "f-scanned"
    /\ LET problematic == SelectSeq(report, LAMBDA e : e.outcome \in {"multiple", "assign-failed"})
       IN  IF Len(problematic) = 0
           THEN Finish("success")
           ELSE /\ projects' = [n \in 1..Len(problematic) |->
                        [id |-> problematic[n].id,
                         properties |-> ("In charge" :>
                            IF problematic[n].outcome = "multiple"
                            THEN pages[problematic[n].id]["In charge"] ELSE <<>>)]]
                /\ i' = 1 /\ pc' = "f-prompt" /\ loc' = NoLoc
                /\ UNCHANGED <<cmd, result, runs>>
    /\ UNCHANGED <<pages, fails, orchVars, fn, second, report, mode, hist>>

\* handleUserSelection: the operator picks one of the users in charge
FSelect ==
    /\ pc = "f-prompt"
    /\ \E selected \in Range(Cur.properties["In charge"]) :
        Stay("f-sel-retrieve",
             [NoLoc EXCEPT !.acc = <<selected>>,
                           !.ids = Without(Cur.properties["In charge"], selected)])
    /\ UNCHANGED <<pages, fails, orchVars, fn, second, mode, hist>>

\* a selection that replaces the participants by the users taken out of
\* 'In charge' instead of adding them to the existing ones
FSelRetrieveReplaces ==
    /\ pc = "f-sel-retrieve"
    /\ \E ok \in Outcomes(Cur.id) :
        /\ Count(Cur.id, ok)
        /\ IF ok THEN Stay("f-sel-update", loc) ELSE Abort
    /\ UNCHANGED <<pages, orchVars, fn, second, mode, hist>>

\* handleUserSelection: read the existing participants
FSelRetrieve ==
    /\ pc = "f-sel-retrieve"
    /\ \E ok \in Outcomes(Cur.id) :
        /\ Count(Cur.id, ok)
        /\ IF ok
           THEN Stay("f-sel-update", [loc EXCEPT !.ids = pages[Cur.id]["Participants"] \o loc.ids])
           ELSE Abort
    /\ UNCHANGED <<pages, orchVars, fn, second, mode, hist>>

\* handleUserSelection: one update sets 'In charge' and 'Participants'
FSelUpdate ==
    /\ pc = "f-sel-update"
    /\ \E ok \in Outcomes(Cur.id) :
        /\ Count(Cur.id, ok)
        /\ IF ok
           THEN /\ pages' = StoreUpdate(pages, Cur.id,
                        ("In charge" :> loc.acc) @@ ("Participants" :> loc.ids))
                /\ IF i < Len(projects)
                   THEN /\ i' = i + 1 /\ pc' = "f-prompt" /\ loc' = NoLoc
                        /\ UNCHANGED <<cmd, projects, result, runs>>
                   ELSE Finish("success")
                /\ UNCHANGED report
           ELSE Abort /\ UNCHANGED pages
    /\ UNCHANGED <<orchVars, fn, second, mode, hist>>

\* ---- post-move-update

\* the sparse payload: one entry per source property that has a value
\* the earlier revision of the payload, which copies the comments as well
PostMovePayloadWithComments(properties) ==
    Opt(properties["Status"] = "Done", "Status", "Completed") @@
    Opt(properties["Status"] = "Cancelled", "Status", "Cancelled") @@
    Opt(properties["Task/project/activity"] # "None", "Type", properties["Task/project/activity"]) @@
    Opt(properties["Importance"] # "None", "Impact", properties["Importance"]) @@
    ("Comments" :> properties["Comments & updates"]) @@
    Opt(Len(properties["In charge"]) = 1, "Owner", properties["In charge"]) @@
    Opt(properties["Deadline"] # "None", "Start and end dates (approximate)",
        properties["Deadline"])

\* a payload that takes the first person in charge as the owner
PostMovePayloadFirstOwner(properties) ==
    Opt(properties["Status"] = "Done", "Status", "Completed") @@
    Opt(properties["Status"] = "Cancelled", "Status", "Cancelled") @@
    Opt(properties["Task/project/activity"] # "None", "Type", properties["Task/project/activity"]) @@
    Opt(properties["Importance"] # "None", "Impact", properties["Importance"]) @@
    Opt(Len(properties["In charge"]) >= 1, "Owner", SubSeq(properties["In charge"], 1, 1)) @@
    Opt(properties["Deadline"] # "None", "Start and end dates (approximate)",
        properties["Deadline"])

\* updatedProperties of the batch step
PostMovePayload(properties) ==
    Opt(properties["Status"] = "Done", "Status", "Completed") @@
    Opt(properties["Status"] = "Cancelled", "Status", "Cancelled") @@
    Opt(properties["Task/project/activity"] # "None", "Type", properties["Task/project/activity"]) @@
    Opt(properties["Importance"] # "None", "Impact", properties["Importance"]) @@
    Opt(Len(properties["In charge"]) = 1, "Owner", properties["In charge"]) @@
    Opt(properties["Deadline"] # "None", "Start and end dates (approximate)",
        properties["Deadline"])

\* update the record if the payload is not empty; there is no per-record catch
PmUpdate ==
    /\ pc = "pm-update"
    /\ LET updatedProperties == PostMovePayload(Cur.properties)
       IN  IF DOMAIN updatedProperties = {}
           THEN NextRecord("no-update") /\ UNCHANGED <<pages, fails>>
           ELSE \E ok \in Outcomes(Cur.id) :
                /\ Count(Cur.id, ok)
                /\ IF ok
                   THEN /\ pages' = StoreUpdate(pages, Cur.id, updatedProperties)
                        /\ NextRecord("updated")
                   ELSE Abort /\ UNCHANGED pages
    /\ hist' = IF DOMAIN PostMovePayload(Cur.properties) = {} THEN hist
               ELSE [hist EXCEPT !.sent = [id |-> Cur.id,
                                           props |-> PostMovePayload(Cur.properties)]]
    /\ UNCHANGED <<orchVars, fn, second, mode>>

\* ---- relink-parent-projects

\* the record up to its first store call
RpCheck ==
    /\ pc = "rp-check"
    /\ LET transferText == Cur.properties["Parent projects to transfer"]
           parentProjectIds == DecodeIds(transferText, <<Comma>>)
       IN  IF Len(transferText) = 0 \/ Len(parentProjectIds) = 0
           THEN NextRecord("skipped")
           ELSE Stay("rp-parent", [NoLoc EXCEPT !.ids = parentProjectIds, !.k = 1])
    /\ UNCHANGED <<pages, fails, orchVars, fn, second, mode, hist>>

\* fetch the title of parent k for display; a failure is tolerated
RpParent ==
    /\ pc = "rp-parent"
    /\ \E ok \in PageOutcomes(loc.ids[loc.k]) :
        /\ PageCount(loc.ids[loc.k], ok)
        /\ IF loc.k < Len(loc.ids)
           THEN Stay("rp-parent", [loc EXCEPT !.k = loc.k + 1])
           ELSE Stay("rp-update", loc)
    /\ UNCHANGED <<pages, orchVars, fn, second, mode, hist>>

\* an update that adds the decoded ids to what 'Parent item' holds
RpUpdateAppends ==
    /\ pc = "rp-update"
    /\ \E ok \in Outcomes(Cur.id) :
        /\ Count(Cur.id, ok)
        /\ IF ok
           THEN /\ pages' = StoreUpdate(pages, Cur.id,
                        ("Parent item" :> pages[Cur.id]["Parent item"] \o loc.ids)
                        @@ ("to delete" :> <<Note(Len(loc.ids))>>))
                /\ NextRecord("relinked")
           ELSE /\ Stay("mark-error", [NoLoc EXCEPT !.errors = {"store"}])
                /\ UNCHANGED pages
    /\ UNCHANGED <<orchVars, fn, second, mode, hist>>

\* write the decoded ids to 'Parent item' and the note to the scratch field
RpUpdate ==
    /\ pc = "rp-update"
    /\ \E ok \in Outcomes(Cur.id) :
        /\ Count(Cur.id, ok)
        /\ IF ok
           THEN /\ pages' = StoreUpdate(pages, Cur.id,
                        ("Parent item" :> loc.ids) @@ ("to delete" :> <<Note(Len(loc.ids))>>))
                /\ NextRecord("relinked")
           ELSE /\ Stay("mark-error", [NoLoc EXCEPT !.errors = {"store"}])
                /\ UNCHANGED pages
    /\ UNCHANGED <<orchVars, fn, second, mode, hist>>

\* ---- relink-subtasks

\* the record up to its store call
RlCheck ==
    /\ pc = "rl-check"
    /\ LET subtasksToTransferText == Cur.properties["Subtasks to transfer"]
           subtaskIds == DecodeIds(subtasksToTransferText, <<Comma, Space>>)
       IN  IF Len(subtasksToTransferText) = 0 \/ Len(subtaskIds) = 0
           THEN NextRecord("skipped")
           ELSE IF cmd = RelinkAppend
           THEN Stay("ra-retrieve", [NoLoc EXCEPT !.ids = subtaskIds, !.k = 1])
           ELSE Stay("rl-update", [NoLoc EXCEPT !.ids = subtaskIds])
    /\ UNCHANGED <<pages, fails, orchVars, fn, second, mode, hist>>

\* the earlier revision: go on with the next subtask or finish the record
RaNext(l) ==
    IF l.k < Len(l.ids)
    THEN Stay("ra-retrieve", [l EXCEPT !.k = l.k + 1, !.rel = <<>>])
    ELSE NextRecord("relinked")

\* RaRetrieve without the look for an existing connection
RaRetrieveNoDedupe ==
    /\ pc = "ra-retrieve"
    /\ \E ok \in Outcomes(loc.ids[loc.k]) :
        /\ Count(loc.ids[loc.k], ok)
        /\ IF ~ok
           THEN RaNext([loc EXCEPT !.acc = Append(@, "failed")])
           ELSE Stay("ra-update", [loc EXCEPT !.rel = pages[loc.ids[loc.k]]["Projects"]])
    /\ UNCHANGED <<pages, orchVars, fn, second, mode, hist>>

\* the earlier revision: retrieve subtask k and look for the project in its
\* 'Projects' relation; a failure is tolerated
RaRetrieve ==
    /\ pc = "ra-retrieve"
    /\ \E ok \in Outcomes(loc.ids[loc.k]) :
        /\ Count(loc.ids[loc.k], ok)
        /\ IF ~ok
           THEN RaNext([loc EXCEPT !.acc = Append(@, "failed")])
           ELSE LET existingRelations == pages[loc.ids[loc.k]]["Projects"]
                IN  IF Cur.id \in Range(existingRelations)
                    THEN RaNext([loc EXCEPT !.acc = Append(@, "already connected")])
                    ELSE Stay("ra-update", [loc EXCEPT !.rel = existingRelations])
    /\ UNCHANGED <<pages, orchVars, fn, second, mode, hist>>

\* the earlier revision: append the project to the subtask's 'Projects'
\* relation; a failure is tolerated
RaUpdate ==
    /\ pc = "ra-update"
    /\ \E ok \in Outcomes(loc.ids[loc.k]) :
        /\ Count(loc.ids[loc.k], ok)
        /\ IF ok
           THEN /\ pages' = StoreUpdate(pages, loc.ids[loc.k],
                        "Projects" :> Append(loc.rel, Cur.id))
                /\ RaNext([loc EXCEPT !.acc = Append(@, "connected")])
           ELSE /\ RaNext([loc EXCEPT !.acc = Append(@, "failed")])
                /\ UNCHANGED pages
    /\ UNCHANGED <<orchVars, fn, second, mode, hist>>

\* a relation may only name pages that exist: the store rejects the update
RelationOutcomes(id, ids) ==
    IF \E x \in Range(ids) : ~Exists(x) THEN {FALSE} ELSE Outcomes(id)
RelationCount(id, ids, ok) ==
    IF \E x \in Range(ids) : ~Exists(x) THEN fails' = fails ELSE Count(id, ok)

\* write all decoded ids to the project's 'Tasks' relation at once; there is
\* no per-record catch
RlUpdate ==
    /\ pc = "rl-update"
    /\ \E ok \in RelationOutcomes(Cur.id, loc.ids) :
        /\ RelationCount(Cur.id, loc.ids, ok)
        /\ IF ok
           THEN /\ pages' = StoreUpdate(pages, Cur.id, "Tasks" :> loc.ids)
                /\ NextRecord("relinked")
           ELSE Abort /\ UNCHANGED pages
    /\ UNCHANGED <<orchVars, fn, second, mode, hist>>

(***************************************************************************)
(* Specifications.                                                         *)
(***************************************************************************)
\* no second step execution is in flight
NoSecond == [opc |-> "idle", oloc |-> [text |-> <<>>]]

\* the codec is not being applied
NoFn == [op |-> "none", variant |-> "none", ids |-> <<>>, text |-> <<>>, out |-> <<>>]

BatchIdle ==
    /\ cmd = "idle" /\ pc = "idle" /\ projects = <<>> /\ i = 0
    /\ loc = NoLoc /\ report = <<>> /\ result = "none" /\ runs = 0
    /\ mode = "any" /\ hist = NoHist /\ fn = NoFn /\ second = NoSecond

InitOrch ==
    /\ pages = [r \in Ids |-> NoPage]
    /\ fails = 0
    /\ step = "init" /\ error = FALSE /\ client = FALSE /\ taskId = "none"
    /\ opc = "mount" /\ oloc = [text |-> <<>>] /\ effDeps = <<"unset">> /\ exited = FALSE
    /\ BatchIdle

NextOrch ==
    \/ Mount \/ AutoEffect \/ InitCreateTask \/ InitCreateSubtask \/ InitValidate
    \/ KeyPress \/ ManualMove
    \/ SaveRetrieve \/ SaveUpdate \/ HsRetrieve \/ HsUpdate \/ VerifyRetrieve
    \/ UpdRetrieve \/ UpdUpdate \/ RsRetrieve \/ RsSubRetrieve \/ RsSubUpdate \/ RsClear

Spec == InitOrch /\ [][NextOrch]_vars

OrchIdle ==
    /\ step = "init" /\ error = FALSE /\ client = FALSE /\ taskId = "none"
    /\ opc = "idle" /\ oloc = [text |-> <<>>] /\ effDeps = <<"unset">> /\ exited = FALSE

\* a candidate project of the Tasks database
Project(subtasks, parents, inCharge) ==
    [f \in DOMAIN NoPage |->
        CASE f = "parent" -> "Tasks"
          [] f = "Migration status" -> "Project to migrate"
          [] f = "Status" -> "Done"
          [] f = "Task/project/activity" -> "Project"
          [] f = "Subtask" -> subtasks
          [] f = "Projects" -> parents
          [] f = "In charge" -> inCharge
          [] f = "Importance" -> "stars4"
          [] f = "Deadline" -> "2024-12-31"
          [] OTHER -> NoPage[f]]

\* a task of the Tasks database that is a subtask of the given projects
\* and belongs to the parent project x1
Task(migrationStatus, parentItems) ==
    [f \in DOMAIN NoPage |->
        CASE f = "parent" -> "Tasks"
          [] f = "Migration status" -> migrationStatus
          [] f = "Status" -> "Done"
          [] f = "Task/project/activity" -> "Task"
          [] f = "Parent item" -> parentItems
          [] f = "Projects" -> <<"x1">>
          [] OTHER -> NoPage[f]]

\* the Tasks database before the migration: p1 has the subtasks s1 and s2 and
\* a parent project; p2 has two persons in charge or none and may share s1;
\* s1 may itself be marked for migration
InitStore ==
    \E shared \in BOOLEAN, m \in {"None", "Project to migrate"},
       inCharge \in {<<>>, <<"u1", "u2">>} :
        pages = ("p1" :> Project(<<"s1", "s2">>, <<"x1">>, <<"u1">>)) @@
                ("p2" :> Project(IF shared THEN <<"s1">> ELSE <<>>, <<"x1">>, inCharge)) @@
                ("s1" :> Task(m, IF shared THEN <<"p1", "p2">> ELSE <<"p1">>)) @@
                ("s2" :> Task("None", <<"p1">>))

InitBatch ==
    /\ InitStore
    /\ fails = 0
    /\ OrchIdle
    /\ BatchIdle

InitPipeline ==
    /\ InitStore
    /\ fails = 0
    /\ OrchIdle
    /\ cmd = "idle" /\ pc = "idle" /\ projects = <<>> /\ i = 0
    /\ loc = NoLoc /\ report = <<>> /\ result = "none" /\ runs = 0
    /\ mode = "pipeline" /\ hist = NoHist /\ fn = NoFn /\ second = NoSecond

NextBatch ==
    \/ Start \/ Query \/ Kill \/ OperatorMove
    \/ GarRetrieve \/ GarPage \/ VCheck \/ VMark \/ MarkError
    \/ SpCheck \/ SpParent \/ SpUpdate
    \/ SsSubRetrieve \/ SsSubUpdate \/ SsUpdate \/ RmUpdate
    \/ FScan \/ FAssign \/ FParent \/ FScanned \/ FSelect \/ FSelRetrieve \/ FSelUpdate
    \/ PmUpdate \/ RpCheck \/ RpParent \/ RpUpdate \/ RlCheck \/ RlUpdate

SpecBatch == InitBatch /\ [][NextBatch]_vars

SpecPipeline == InitPipeline /\ [][NextBatch]_vars

\* a record of the Projects database after the move
MovedProject(subtasksToTransfer, tasks) ==
    [Project(<<>>, <<>>, <<"u1">>) EXCEPT !["parent"] = "Projects",
                                         !["Subtasks to transfer"] = subtasksToTransfer,
                                         !["Tasks"] = tasks]

\* a former subtask that stayed in the Tasks database
LeftTask(projectsRelation) ==
    [Task("Subtask to relink", <<>>) EXCEPT !["Projects"] = projectsRelation]

\* what the save steps and the orchestrator leave in 'Subtasks to transfer'
TransferContents ==
    {<<>>, JoinCommaSpace(<<IdTok("s1")>>), JoinCommaSpace(<<IdTok("s1"), IdTok("s2")>>),
     <<Note(2)>>}

\* the store when relink-subtasks is run: p1 and p2 were moved, the subtasks
\* have some 'Projects' relation already
InitRelink ==
    /\ \E t1 \in TransferContents, t2 \in {<<>>, JoinCommaSpace(<<IdTok("s1")>>)},
          tasks \in {<<>>, <<"s2">>},
          r1 \in {<<>>, <<"x1">>, <<"x1", "p1">>}, r2 \in {<<"x1">>, <<"p1", "x1">>} :
        pages = ("p1" :> MovedProject(t1, tasks)) @@ ("p2" :> MovedProject(t2, <<>>)) @@
                ("s1" :> LeftTask(r1)) @@ ("s2" :> LeftTask(r2))
    /\ fails = 0
    /\ OrchIdle
    /\ cmd = "idle" /\ pc = "idle" /\ projects = <<>> /\ i = 0
    /\ loc = NoLoc /\ report = <<>> /\ result = "none" /\ runs = 0
    /\ mode \in RelinkModes /\ hist = NoHist /\ fn = NoFn /\ second = NoSecond

NextRelink ==
    \/ Start \/ Query \/ Kill \/ RlCheck \/ RlUpdate \/ RaRetrieve \/ RaUpdate

\* one revision of relink-subtasks, run up to MaxRuns times
SpecRelink == InitRelink /\ [][NextRelink]_vars

\* a record of the Projects database whose business properties are given
PostMoveRecord(status, type, importance, inCharge, deadline) ==
    [Project(<<>>, <<>>, inCharge) EXCEPT !["parent"] = "Projects",
                                          !["Status"] = status,
                                          !["Task/project/activity"] = type,
                                          !["Importance"] = importance,
                                          !["Deadline"] = deadline]

\* the store when post-move-update is run: p1 was moved, any of its business
\* properties may be without a value
InitPostMove ==
    /\ \E status \in {"None", "Done", "Cancelled", "Ongoing"}, type \in {"None", "Project"},
          importance \in {"None", "stars4"}, deadline \in {"None", "2024-12-31"},
          inCharge \in {<<>>, <<"u1">>, <<"u1", "u2">>} :
        pages = ("p1" :> PostMoveRecord(status, type, importance, inCharge, deadline)) @@
                ("p2" :> PostMoveRecord("Done", "Activity", "None", <<"u2">>, "None")) @@
                ("s1" :> NoPage) @@ ("s2" :> NoPage)
    /\ fails = 0
    /\ OrchIdle
    /\ cmd = "idle" /\ pc = "idle" /\ projects = <<>> /\ i = 0
    /\ loc = NoLoc /\ report = <<>> /\ result = "none" /\ runs = 0
    /\ mode = "post-move" /\ hist = NoHist /\ fn = NoFn /\ second = NoSecond

NextPostMove == Start \/ Query \/ Kill \/ PmUpdate

\* post-move-update, run up to MaxRuns times
SpecPostMove == InitPostMove /\ [][NextPostMove]_vars

\* a page id as the store returns it: a lower-case UUID made of one digit per
\* group
Uuid(a, b, c, d, e) ==
    [k \in 1..8 |-> a] \o <<"-">> \o [k \in 1..4 |-> b] \o <<"-">> \o [k \in 1..4 |-> c]
        \o <<"-">> \o [k \in 1..4 |-> d] \o <<"-">> \o [k \in 1..12 |-> e]

SampleUuids == {Uuid("a", "0", "4", "8", "f"), Uuid("1", "b", "c", "9", "0"),
                Uuid("d", "e", "a", "d", "7")}

\* the three encode/decode pairs of the program
CodecVariants == {"parents", "subtasks", "url"}

\* the codec is given a list of up to MaxIds page ids
InitCodec ==
    /\ pages = [r \in Ids |-> NoPage]
    /\ fails = 0
    /\ OrchIdle
    /\ cmd = "idle" /\ pc = "idle" /\ projects = <<>> /\ i = 0
    /\ loc = NoLoc /\ report = <<>> /\ result = "none" /\ runs = 0
    /\ mode = "codec" /\ hist = NoHist /\ second = NoSecond
    /\ \E n \in 0..MaxIds, v \in CodecVariants :
        \E ids \in [1..n -> SampleUuids] :
            fn = [op |-> "given", variant |-> v, ids |-> ids, text |-> <<>>, out |-> <<>>]

\* the save side: the id list becomes the text of the transfer field
Encode ==
    /\ fn.op = "given"
    /\ fn' = [fn EXCEPT !.op = "encoded",
                        !.text = IF fn.variant = "url" THEN EncodeUrlList(fn.ids)
                                 ELSE EncodeIdList(fn.ids)]
    /\ UNCHANGED <<pages, fails, orchVars, batchVars, second>>

\* the restore side: the text becomes an id list again
Decode ==
    /\ fn.op = "encoded"
    /\ fn' = [fn EXCEPT !.op = "decoded",
                        !.out = CASE fn.variant = "url" -> DecodeUrlList(fn.text)
                                  [] fn.variant = "parents" -> DecodeIdList(fn.text, <<",">>)
                                  [] fn.variant = "subtasks" -> DecodeIdList(fn.text, <<",", " ">>)]
    /\ UNCHANGED <<pages, fails, orchVars, batchVars, second>>

NextCodec == Encode \/ Decode

SpecCodec == InitCodec /\ [][NextCodec]_vars

(***************************************************************************)
(* Properties of the orchestrator.                                         *)
(***************************************************************************)
\* the edges of the orchestrator's state machine
OrchEdges ==
    {<<"init", "created">>, <<"created", "saving-relations">>, <<"created", "complete">>,
     <<"saving-relations", "handling-subtasks">>,
     <<"handling-subtasks", "await-manual-move">>,
     <<"await-manual-move", "verifying">>, <<"verifying", "moved">>,
     <<"verifying", "await-manual-move">>, <<"moved", "updating">>,
     <<"moved", "complete">>, <<"updating", "complete">>}

StepRank(s) ==
    CASE s = "init" -> 1 [] s = "created" -> 2 [] s = "saving-relations" -> 3
      [] s = "handling-subtasks" -> 4 [] s = "await-manual-move" -> 5
      [] s = "verifying" -> 6 [] s = "moved" -> 7 [] s = "confirm-update" -> 8
      [] s = "updating" -> 9 [] s = "complete" -> 10 [] s = "error" -> 11

\* the verification that is being answered fails: the store call throws or
\* the page is not in the Projects database
VerificationFails ==
    /\ opc = "verify-retrieve" /\ opc' # "verify-retrieve"
    /\ (fails' # fails \/ pages[taskId]["parent"] # "Projects")

TransferFields == {"Parent projects to transfer", "Subtasks to transfer"}

\* C3: Save-subtask-relations never changes the content of a transfer field
\* that is already populated.
C3_NoOverwrite ==
    [][cmd = "save-subtasks-relations" =>
        \A r \in Ids : \A f \in TransferFields :
            (Exists(r) /\ Len(pages[r][f]) > 0) => pages'[r][f] = pages[r][f]]_vars

\* the step of Save-parent-relations that looks at the current record
SpLooksAt(r) ==
    /\ cmd = "save-parent-project-relations" /\ pc = "sp-check"
    /\ Cur.id = r /\ result' # "killed"

\* C4: once Save-parent-relations has saved a record's parents, a second
\* invocation fails for that record with the 'already filled' error and
\* leaves the content of 'Parent projects to transfer' as it was.
C4_SecondSaveFails ==
    [][\A r \in hist.savedParents :
        /\ SpLooksAt(r) => (pc' = "mark-error" /\ loc'.errors = {"already filled"})
        /\ cmd = "save-parent-project-relations" =>
              pages'[r]["Parent projects to transfer"] = pages[r]["Parent projects to transfer"]]_vars

\* the second invocation has reported 'already filled' for a saved record
C4_Witness ==
    /\ cmd = "save-parent-project-relations"
    /\ \E n \in 1..Len(report) :
        /\ report[n].id \in hist.savedParents
        /\ report[n].errors = {"already filled"}
        /\ pages[report[n].id]["Migration status"] = "Error"
        /\ DecodeIds(pages[report[n].id]["Parent projects to transfer"], <<Comma, Space>>) = <<"x1">>

\* C5: when a killed subcommand is run again and no store call fails, no
\* record the killed run had processed successfully becomes an Error record.
C5_RerunKeepsProcessed ==
    (hist.rerun /\ fails = 0) =>
        \A r \in hist.processed : pages[r]["Migration status"] # "Error"

\* C6: a failed store call on one record never ends the run while later
\* records of the working set are still to be processed.
C6_FailureNeverAborts ==
    [][(cmd # "idle" /\ pc # "query" /\ fails' > fails /\ i < Len(projects)) =>
        cmd' = cmd]_vars

\* the eligible record of the initial store: Done, Project, no parent item,
\* two subtasks
EligibleRecord == "p1"

\* every step of the pipeline has run once, without a failure or a kill
PipelineRanClean(n) ==
    mode = "pipeline" /\ runs = n /\ cmd = "idle" /\ fails = 0 /\ ~hist.killed

\* C7: an eligible record that was taken through every step without a
\* failure has the marker Migrated.
C7_EligibleEndsMigrated ==
    (PipelineRanClean(Len(Pipeline)) /\ EligibleRecord \in hist.verified) =>
        pages[EligibleRecord]["Migration status"] = "Migrated"

\* C8: no step changes the marker of a record whose marker is Error.
C8_ErrorPermanent ==
    [][\A r \in Ids :
        (Exists(r) /\ pages[r]["Migration status"] = "Error") =>
            pages'[r]["Migration status"] = "Error"]_vars

\* the two subtasks of the eligible record are listed by no other record
OwnSubtasks ==
    \A r \in Ids \ {EligibleRecord} :
        Exists(r) => pages[r]["Subtasks to transfer"] = <<>>

\* C9: after Validate, Save-parent-relations, Save-subtask-relations and
\* Remove-subtasks on the eligible record with its two subtasks: the marker
\* is still 'Project to migrate', 'Subtask' is empty, 'Subtasks to transfer'
\* decodes to the two subtask ids, and each subtask is marked 'Subtask to
\* relink' with the record's id in its transfer field.
C9_SourceSideScenario ==
    (PipelineRanClean(SourceSteps) /\ OwnSubtasks) =>
        LET record == pages[EligibleRecord]
        IN  /\ record["Migration status"] = "Project to migrate"
            /\ record["Subtask"] = <<>>
            /\ DecodeIds(record["Subtasks to transfer"], <<Comma, Space>>) = <<"s1", "s2">>
            /\ \A sub \in {"s1", "s2"} :
                /\ pages[sub]["Migration status"] = "Subtask to relink"
                /\ DecodeIds(pages[sub]["Parent projects to transfer"], <<Comma, Space>>)
                        = <<EligibleRecord>>

\* the source side steps are over and the record's subtasks were saved
C9_Witness ==
    /\ PipelineRanClean(SourceSteps) /\ OwnSubtasks
    /\ pages[EligibleRecord]["Subtasks to transfer"] # <<>>
    /\ pages[EligibleRecord]["Parent projects to transfer"] # <<>>
    /\ pages["s1"]["Parent item"] = <<>>

\* Save-subtask-relations finishes the current record without an error
SsFinishesRecord ==
    /\ cmd = "save-subtasks-relations" /\ pc = "ss-update"
    /\ Len(report') > Len(report)

\* C10: when Save-subtask-relations finishes a record without marking it
\* Error, every subtask it stores in 'Subtasks to transfer' is marked
\* 'Subtask to relink' and has the record's id in its transfer field.
C10_StoredSubtasksMarked ==
    [][SsFinishesRecord =>
        \A sub \in Range(DecodeIds(pages'[Cur.id]["Subtasks to transfer"], <<Comma, Space>>)) :
            /\ pages'[sub]["Migration status"] = "Subtask to relink"
            /\ pages'[sub]["Parent projects to transfer"] = <<IdTok(Cur.id)>>]_vars

NoDuplicates(list) == \A m, n \in 1..Len(list) : list[m] = list[n] => m = n

\* C11: after two or more complete invocations of relink-subtasks without a
\* failed store call the relation lists are what they were after the first
\* invocation, and no relation list names a page twice.
C11_RelinkIdempotent ==
    /\ (cmd = "idle" /\ hist.invocations >= 2 /\ fails = 0 /\ ~hist.killed) =>
            RelationLists(pages) = hist.afterFirst
    /\ \A r \in Ids : NoDuplicates(pages[r]["Projects"]) /\ NoDuplicates(pages[r]["Tasks"])

\* the second invocation of the appending revision found s1 connected by the
\* first one
C11_Witness ==
    /\ cmd = "idle" /\ hist.invocations >= 2 /\ fails = 0 /\ ~hist.killed
    /\ mode = "relink-append" /\ result = "success"
    /\ pages["s1"]["Projects"] = <<"x1", "p1">>
    /\ hist.afterFirst # <<>> /\ hist.afterFirst["s1"].Projects = <<"x1", "p1">>
    /\ \E n \in 1..Len(report) : "already connected" \in Range(report[n].acc)

\* C12: decoding the text encoded from a list of page ids gives the same ids
\* in the same order, for the bare-id pairs (join ', ' with split ',' or
\* split ', ', trim, drop empty) and for the URL pair.
C12_CodecRoundTrip == fn.op = "decoded" => fn.out = fn.ids

\* three different ids went through the URL pair
C12_Witness ==
    /\ fn.op = "decoded" /\ fn.variant = "url" /\ Len(fn.ids) = 3
    /\ fn.ids[1] # fn.ids[2] /\ fn.ids[2] # fn.ids[3]
    /\ Len(fn.text) = 3 * (Len(UrlPrefix) + 32) + 4
    /\ fn.out = fn.ids

\* the destination name of a source property
Renamed(f) ==
    CASE f = "Status" -> "Status" [] f = "Task/project/activity" -> "Type"
      [] f = "Importance" -> "Impact" [] f = "In charge" -> "Owner"
      [] f = "Deadline" -> "Start and end dates (approximate)"

\* the destination names of the source properties that have a value
RenamedPresent(properties) ==
    {Renamed(f) : f \in {g \in {"Status", "Task/project/activity", "Importance", "Deadline"} :
                            properties[g] # "None"}}
    \cup (IF Len(properties["In charge"]) > 0 THEN {"Owner"} ELSE {})

\* post-move-update handles the current record
PmStep == cmd = "post-move-update" /\ pc = "pm-update" /\ result' # "killed"

PmDone == PmStep /\ Len(report') > Len(report)

\* C14: post-move-update turns the status Done into Completed and leaves
\* Cancelled, and writes the owner, equal to the person in charge, exactly
\* when the record has one person in charge.
C14_StatusAndOwner ==
    [][PmDone =>
        LET properties == Cur.properties
            after == pages'[Cur.id]
        IN  /\ properties["Status"] = "Done" => after["Status"] = "Completed"
            /\ properties["Status"] = "Cancelled" => after["Status"] = "Cancelled"
            /\ IF Len(properties["In charge"]) = 1
               THEN /\ after["Owner"] = properties["In charge"]
                    /\ hist'.sent.id = Cur.id /\ "Owner" \in DOMAIN hist'.sent.props
               ELSE /\ after["Owner"] = pages[Cur.id]["Owner"]
                    /\ hist'.sent # hist.sent => "Owner" \notin DOMAIN hist'.sent.props]_vars

\* a cancelled record with one person in charge after the step
C14_Witness ==
    /\ hist.sent.id = "p1" /\ Len(report) = 1 /\ report[1].outcome = "updated"
    /\ "Status" \in DOMAIN hist.sent.props /\ hist.sent.props["Status"] = "Cancelled"
    /\ pages["p1"]["Status"] = "Cancelled"
    /\ pages["p1"]["In charge"] = <<"u1">> /\ pages["p1"]["Owner"] = <<"u1">>

\* ---- fix-in-charge on its own

FixRecord(inCharge, participants, parents) ==
    [Project(<<>>, parents, inCharge) EXCEPT !["Participants"] = participants]

\* the Tasks database when fix-in-charge is run: p1 has nobody, one person or
\* two persons in charge and any participants, one of whom may be in charge
\* as well; p2 has two persons in charge
InitFix ==
    /\ \E inCharge \in {<<>>, <<"u1">>, <<"u1", "u2">>},
          participants \in {<<>>, <<"u3">>, <<"u2", "u3">>},
          parents \in {<<>>, <<"x1">>} :
        pages = ("p1" :> FixRecord(inCharge, participants, parents)) @@
                ("p2" :> FixRecord(<<"u2", "u3">>, <<"u1">>, <<>>)) @@
                ("s1" :> NoPage) @@ ("s2" :> NoPage)
    /\ fails = 0
    /\ OrchIdle
    /\ cmd = "idle" /\ pc = "idle" /\ projects = <<>> /\ i = 0
    /\ loc = NoLoc /\ report = <<>> /\ result = "none" /\ runs = 0
    /\ mode = "fix" /\ hist = NoHist /\ fn = NoFn /\ second = NoSecond

NextFix ==
    \/ Start \/ Query \/ Kill
    \/ FScan \/ FAssign \/ FParent \/ FScanned
    \/ FSelect \/ FSelRetrieve \/ FSelUpdate

\* fix-in-charge, run up to MaxRuns times
SpecFix == InitFix /\ [][NextFix]_vars

\* the update of handleUserSelection for a record presented with two persons
\* in charge
FixesPair ==
    /\ pc = "f-sel-update" /\ pages' # pages
    /\ Len(Cur.properties["In charge"]) = 2

\* C15: when the operator has picked one of the two persons in charge of a
\* record, the record's 'In charge' is exactly the picked person, and its
\* 'Participants' are the participants it had before together with the other
\* person: nobody is removed from them
C15_PickKeepsParticipants ==
    [][FixesPair =>
        LET before == Range(pages[Cur.id]["Participants"])
            after == Range(pages'[Cur.id]["Participants"])
            inChargeUsers == Range(Cur.properties["In charge"])
        IN  /\ Len(loc.acc) = 1 /\ loc.acc[1] \in inChargeUsers
            /\ pages'[Cur.id]["In charge"] = loc.acc
            /\ after = before \cup (inChargeUsers \ {loc.acc[1]})]_vars

\* p1 had u1 and u2 in charge and the participant u3; u2 was picked
C15_Witness ==
    /\ cmd = "idle" /\ result = "success"
    /\ pages["p1"]["In charge"] = <<"u2">>
    /\ pages["p1"]["Participants"] = <<"u3", "u1">>

\* ---- initial-validation on its own

ValidatedRecord(status, type, parentItem, subtasks) ==
    [Project(subtasks, <<"x1">>, <<"u1">>) EXCEPT !["Status"] = status,
                                                  !["Task/project/activity"] = type,
                                                  !["Parent item"] = parentItem]

\* the Tasks database when initial-validation is run: p1 has any status and
\* type, a parent item or none, and no subtasks or more than one page of them;
\* p2 is an ongoing activity that may be a subtask of p1
InitValidation ==
    /\ \E status \in {"None", "Done", "Backlog"}, type \in {"Project", "Task"},
          parentItem \in {<<>>, <<"s2">>}, subtasks \in {<<>>, <<"s1", "s2", "p2">>},
          nested \in {<<>>, <<"p1">>} :
        pages = ("p1" :> ValidatedRecord(status, type, parentItem, subtasks)) @@
                ("p2" :> ValidatedRecord("Ongoing", "Activity", nested, <<>>)) @@
                ("s1" :> Task("None", <<"p1">>)) @@
                ("s2" :> Task("None", <<"p1">>))
    /\ fails = 0
    /\ OrchIdle
    /\ cmd = "idle" /\ pc = "idle" /\ projects = <<>> /\ i = 0
    /\ loc = NoLoc /\ report = <<>> /\ result = "none" /\ runs = 0
    /\ mode = "validate" /\ hist = NoHist /\ fn = NoFn /\ second = NoSecond

NextValidation == Start \/ Query \/ Kill \/ VCheck \/ GarRetrieve \/ GarPage \/ VMark

\* initial-validation, run up to MaxRuns times
SpecValidation == InitValidation /\ [][NextValidation]_vars

\* validateProject returns its result for the current record
ValidatorReturns == cmd = "initial-validation" /\ Len(report') = Len(report) + 1
Returned == report'[Len(report')]

\* C16: whenever the validator returns for a record, valid is true exactly
\* when the error list is empty; a status outside Done, Cancelled, Ongoing
\* gives valid = false and an error that names the status found; a non-empty
\* 'Parent item' gives valid = false whatever the other properties are.
C16_ValidatorResult ==
    [][ValidatorReturns =>
        LET properties == Cur.properties
            valid == Returned.outcome = "valid"
        IN  /\ Returned.id = Cur.id
            /\ Returned.outcome \in {"valid", "invalid"}
            /\ valid <=> Returned.errors = {}
            /\ properties["Status"] \notin {"Done", "Cancelled", "Ongoing"} =>
                    ~valid /\ StatusError(properties["Status"]) \in Returned.errors
            /\ Len(properties["Parent item"]) > 0 => ~valid]_vars

\* p1 was returned with the error that names its status Backlog, p2 with a
\* parent item and otherwise eligible was returned invalid
C16_Witness ==
    /\ mode = "validate" /\ result = "success" /\ Len(report) = 2
    /\ report[1].outcome = "invalid" /\ "Status is Backlog" \in report[1].errors
    /\ report[2].outcome = "invalid" /\ report[2].errors = {"parent"}

\* C17: initial-validation issues a store write for a record exactly when the
\* record's error list is not empty; the write sets the record's marker to
\* Error and nothing else; a record returned valid is left as it was.
C17_MarkerIffErrors ==
    [][cmd = "initial-validation" =>
        /\ pc' = "v-mark" => loc'.errors # {}
        /\ pages' # pages =>
            /\ pc = "v-mark" /\ ValidatorReturns
            /\ pages' = [pages EXCEPT ![Cur.id]["Migration status"] = "Error"]
        /\ ValidatorReturns =>
            IF Returned.errors # {}
            THEN pc = "v-mark" /\ pages'[Cur.id]["Migration status"] = "Error"
            ELSE pages' = pages /\ pages[Cur.id] = Cur.properties]_vars

\* p1 was invalid and carries the Error marker, p2 was valid and is unchanged
C17_Witness ==
    /\ mode = "validate" /\ result = "success" /\ Len(report) = 2
    /\ report[1].outcome = "invalid" /\ pages["p1"]["Migration status"] = "Error"
    /\ report[2].outcome = "valid"
    /\ pages["p2"] = ValidatedRecord("Ongoing", "Activity", <<>>, <<>>)

\* ---- verify-move on its own

\* the store when verify-move is run: the operator has moved any of the
\* marked records, or none
InitVerify ==
    /\ InitStore
    /\ fails = 0
    /\ OrchIdle
    /\ cmd = "idle" /\ pc = "idle" /\ projects = <<>> /\ i = 0
    /\ loc = NoLoc /\ report = <<>> /\ result = "none" /\ runs = 0
    /\ mode = "verify" /\ hist = NoHist /\ fn = NoFn /\ second = NoSecond

NextVerify == Start \/ Query \/ Kill \/ OperatorMove

\* verify-move, run up to MaxRuns times, and the operator moving records
SpecVerify == InitVerify /\ [][NextVerify]_vars

\* what VerifyMove renders once the run is over
VerifyRendering ==
    IF result # "success" THEN "error"
    ELSE IF hist.verified = {} THEN "not yet moved"
    ELSE "found"

\* the query of verify-move is answered by the store
VerifyAnswered ==
    /\ cmd = "verify-move" /\ pc = "query"
    /\ cmd' = "idle" /\ result' # "killed" /\ fails' = fails

\* C18: verify-move never changes the store, and when the Projects database
\* holds no record marked 'Project to migrate' and the query is answered, the
\* run ends with a successful result rendered as "not yet moved".
C18_VerifyOnlyReads ==
    [][cmd = "verify-move" =>
        /\ pages' = pages
        /\ (VerifyAnswered /\ Len(QueryResult("Projects", "Project to migrate")) = 0) =>
                (result' = "success" /\ VerifyRendering' = "not yet moved")]_vars

\* verify-move has run with success while no record was in Projects
C18_Witness ==
    /\ mode = "verify" /\ cmd = "idle" /\ runs > 0 /\ ~hist.killed /\ fails = 0
    /\ \A r \in Ids : pages[r]["parent"] # "Projects"
    /\ VerifyRendering = "not yet moved"

\* ---- the orchestrator's failures and inputs

\* the steps during which the orchestrator has a store operation running
StoreSteps == {"init", "saving-relations", "handling-subtasks", "verifying", "updating"}

\* a store call of the running step throws and the step gives up
StepFails == step \in StoreSteps /\ opc # "idle" /\ fails' > fails /\ opc' = "idle"

\* C19: whenever a store call throws during init, saving-relations,
\* handling-subtasks, verifying or updating and the step gives up, the
\* orchestrator moves to error.
C19_FailureEndsInError == [][StepFails => step' = "error"]_vars

\* what runs without the operator: the mount effect, the auto-execute effect
\* and the continuation of a step after each of its store calls
OrchContinues ==
    \/ Mount \/ AutoEffect \/ InitCreateTask \/ InitCreateSubtask \/ InitValidate
    \/ SaveRetrieve \/ SaveUpdate \/ HsRetrieve \/ HsUpdate \/ VerifyRetrieve
    \/ UpdRetrieve \/ UpdUpdate \/ RsRetrieve \/ RsSubRetrieve \/ RsSubUpdate \/ RsClear

\* the orchestrator with its effects and store calls eventually completing;
\* nothing obliges the operator to press a key or to move the page
SpecOrchFair == InitOrch /\ [][NextOrch]_vars /\ WF_vars(OrchContinues)

AutoSteps == {"init", "saving-relations", "handling-subtasks", "verifying", "updating"}

RestoreIncomplete ==
    /\ step = "updating" /\ opc = "rs-clear"
    /\ \E k \in 1..Len(oloc.ids) :
        ~Exists(oloc.ids[k]) \/ taskId \notin Range(pages[oloc.ids[k]]["Projects"])

\* C21: when the restoration of a listed subtask's connection has failed,
\* the updating step ends in error and not in complete.
C21_RestoreFailureFails == [][(RestoreIncomplete /\ opc' # opc) => step' = "error"]_vars

\* ---- the command line: one invocation runs the orchestrator (migrate-test)
\* or the subcommands of migrate

\* the orchestrator was mounted in this behaviour
OrchRunning == opc # "idle" \/ step # "init"

InitApp == InitOrch \/ InitPipeline

NextApp ==
    \/ OrchRunning /\ NextOrch
    \/ ~OrchRunning /\ NextBatch

\* the orchestrator, or the subcommands in the documented order
SpecApp == InitApp /\ [][NextApp]_vars

\* a subcommand is started without a credential
StartsWithoutToken == Start /\ cmd' = "idle"

\* the first query of a subcommand is rejected by the store
QueryFails == cmd # "idle" /\ pc = "query" /\ fails' > fails

\* the orchestrator is mounted without a credential
MountsWithoutToken == opc = "mount" /\ opc' # "mount" /\ ~client'

\* C22: a subcommand begins with its query and nothing else; when it has no
\* credential or its query fails, the run is over with a failure and the
\* store is as it was when the run began; the orchestrator without a
\* credential goes from init to error and writes nothing.
C22_SetupFailureAborts ==
    [][/\ (cmd = "idle" /\ cmd' # "idle") => (pc' = "query" /\ pages' = pages)
       /\ (cmd # "idle" /\ pc = "query") => pages' = pages
       /\ (StartsWithoutToken \/ QueryFails) =>
            (cmd' = "idle" /\ result' = "failure" /\ pages' = pages /\ report' = <<>>)
       /\ MountsWithoutToken =>
            (step = "init" /\ step' = "error" /\ opc' = "idle" /\ pages' = pages)]_vars

\* save-parent-project-relations, the third step, was started without a
\* credential after two steps that succeeded
C22_Witness ==
    /\ mode = "pipeline" /\ runs = 2 /\ cmd = "idle"
    /\ result = "failure" /\ fails = 0 /\ report = <<>>
    /\ ~OrchRunning

\* ---- relink-subtasks and relink-parent-projects

\* relink-subtasks has processed the current record with success
RelinkFinishesRecord ==
    /\ cmd \in {"relink-subtasks", RelinkAppend}
    /\ Len(report') = Len(report) + 1
    /\ report'[Len(report')].outcome = "relinked"
    /\ "failed" \notin Range(report'[Len(report')].acc)

\* C23: when relink-subtasks has processed a project with success, none of
\* the subtasks listed in the project's 'Subtasks to transfer' still has the
\* marker 'Subtask to relink'.
C23_RelinkedLeavesToRelink ==
    [][RelinkFinishesRecord =>
        \A sub \in Range(DecodeIds(Cur.properties["Subtasks to transfer"], <<Comma, Space>>)) :
            pages'[sub]["Migration status"] # "Subtask to relink"]_vars

\* ---- the orchestrator's terminal steps

TerminalSteps == {"complete", "error"}

RelinkWorks == cmd \in {"relink-subtasks", RelinkAppend} /\ pc # "query"

\* C25: once relink-subtasks works on its records, a failed store call for
\* one subtask never ends the run: the run goes on with the next subtask or
\* record and ends with success.
C25_SubtaskFailureIsLocal ==
    [][RelinkWorks => (result' # "failure" /\ (cmd' = "idle" => result' \in {"success", "killed"}))]_vars

\* a record of the Projects database with a parent-transfer field and some
\* 'Parent item' relation
RelinkedRecord(transferText, parentItem) ==
    [Project(<<>>, <<>>, <<"u1">>) EXCEPT !["parent"] = "Projects",
                                         !["Parent projects to transfer"] = transferText,
                                         !["Parent item"] = parentItem]

\* what save-parent-project-relations leaves in the transfer field: nothing,
\* one id or several ids
ParentTransferContents ==
    {<<>>, JoinCommaSpace(<<IdTok("x1")>>), JoinCommaSpace(<<IdTok("x1"), IdTok("p2")>>),
     JoinCommaSpace(<<IdTok("p2"), IdTok("x1")>>)}

\* the store when relink-parent-projects is run: p1 and p2 were moved, p1 has
\* any transfer content and may have a 'Parent item' already
InitRelinkParents ==
    /\ \E t1 \in ParentTransferContents, t2 \in {<<>>, JoinCommaSpace(<<IdTok("x1")>>)},
          parentItem \in {<<>>, <<"s2">>, <<"x1">>} :
        pages = ("p1" :> RelinkedRecord(t1, parentItem)) @@
                ("p2" :> RelinkedRecord(t2, <<>>)) @@
                ("s1" :> LeftTask(<<"x1">>)) @@ ("s2" :> LeftTask(<<"x1">>))
    /\ fails = 0
    /\ OrchIdle
    /\ cmd = "idle" /\ pc = "idle" /\ projects = <<>> /\ i = 0
    /\ loc = NoLoc /\ report = <<>> /\ result = "none" /\ runs = 0
    /\ mode = "relink-parents" /\ hist = NoHist /\ fn = NoFn /\ second = NoSecond

NextRelinkParents == Start \/ Query \/ Kill \/ RpCheck \/ RpParent \/ RpUpdate \/ MarkError

\* relink-parent-projects, run up to MaxRuns times
SpecRelinkParents == InitRelinkParents /\ [][NextRelinkParents]_vars

\* the ids relink-parent-projects decodes from the current record's snapshot
DecodedParents == DecodeIds(Cur.properties["Parent projects to transfer"], <<Comma>>)

\* relink-parent-projects works on a record and is not killed at this step
RelinkParentStep == cmd = "relink-parent-projects" /\ cmd' = cmd /\ pc # "query"

\* C26: for a record whose 'Parent projects to transfer' decodes to a
\* non-empty id list, relink-parent-projects goes through the title fetches
\* to its update whether they fail or not, and the update sets 'Parent item'
\* to exactly the decoded ids, in order, whatever the relation held before.
C26_ParentItemReplaced ==
    [][RelinkParentStep =>
        /\ (pc = "rp-check" /\ Len(DecodedParents) > 0) =>
                (pc' = "rp-parent" /\ loc'.ids = DecodedParents)
        /\ pc = "rp-parent" => (pc' \in {"rp-parent", "rp-update"} /\ loc'.ids = DecodedParents)
        /\ (pc = "rp-update" /\ pc' # "mark-error") =>
                /\ pages'[Cur.id]["Parent item"] = DecodedParents
                /\ report'[Len(report')] = [id |-> Cur.id, outcome |-> "relinked",
                                            errors |-> {}, acc |-> <<>>]]_vars

\* p1 had the parent item s2 and the transfer text 'x1, p2'; the title of a
\* parent could not be fetched; p1 now has the parent items x1 and p2
C26_Witness ==
    /\ mode = "relink-parents" /\ cmd = "idle" /\ result = "success"
    /\ runs = 1 /\ fails = 1
    /\ pages["p1"]["Parent item"] = <<"x1", "p2">>
    /\ pages["p1"]["to delete"] = <<Note(2)>>
    /\ pages["p1"]["Migration status"] = "Project to migrate"
    /\ Len(report) = 2 /\ report[1].outcome = "relinked" /\ report[2].outcome = "relinked"

\* ---- save-parent-project-relations on its own

SavedRecord(parents, transferText) ==
    [Project(<<>>, parents, <<"u1">>) EXCEPT !["Parent projects to transfer"] = transferText]

\* the Tasks database when save-parent-project-relations is run: p1 and p2
\* have a parent project or none, p1 may have its transfer field filled
InitSaveParents ==
    /\ \E parents1 \in {<<>>, <<"x1">>, <<"x1", "p2">>}, parents2 \in {<<>>, <<"x1">>},
          transferText \in {<<>>, JoinCommaSpace(<<IdTok("x1")>>)} :
        pages = ("p1" :> SavedRecord(parents1, transferText)) @@
                ("p2" :> SavedRecord(parents2, <<>>)) @@
                ("s1" :> NoPage) @@ ("s2" :> NoPage)
    /\ fails = 0
    /\ OrchIdle
    /\ cmd = "idle" /\ pc = "idle" /\ projects = <<>> /\ i = 0
    /\ loc = NoLoc /\ report = <<>> /\ result = "none" /\ runs = 0
    /\ mode = "save-parents" /\ hist = NoHist /\ fn = NoFn /\ second = NoSecond

NextSaveParents == Start \/ Query \/ Kill \/ SpCheck \/ SpParent \/ SpUpdate \/ MarkError

\* save-parent-project-relations, run up to MaxRuns times
SpecSaveParents == InitSaveParents /\ [][NextSaveParents]_vars

\* save-parent-project-relations looks at a record that has no parent
\* project and an empty transfer field
SavesNothing ==
    /\ cmd = "save-parent-project-relations" /\ pc = "sp-check" /\ result' # "killed"
    /\ Len(Cur.properties["Projects"]) = 0
    /\ Len(Cur.properties["Parent projects to transfer"]) = 0

\* C27: for a record whose 'Projects' relation and transfer field are both
\* empty, save-parent-project-relations issues no store call: the store is
\* left as it was and the record is reported with an empty list of parents.
C27_NoParentsNoWrite ==
    [][SavesNothing =>
        /\ pages' = pages /\ fails' = fails
        /\ pc' # "mark-error" /\ pc' # "sp-parent" /\ pc' # "sp-update"
        /\ report' = Append(report, [id |-> Cur.id, outcome |-> "skipped",
                                     errors |-> {}, acc |-> <<>>])]_vars

\* p1 has no parent project: it was reported without parents and is as it
\* was, while p2's parent was saved
C27_Witness ==
    /\ mode = "save-parents" /\ cmd = "idle" /\ result = "success" /\ runs = 1
    /\ Len(report) = 2 /\ report[1] = [id |-> "p1", outcome |-> "skipped",
                                        errors |-> {}, acc |-> <<>>]
    /\ report[2].outcome = "saved"
    /\ pages["p1"] = SavedRecord(<<>>, <<>>)

\* ---- the orchestrator's handling-subtasks step

\* the test project had its subtask and its 'Subtask' relation is empty now
SubtaskCleared ==
    /\ Exists(TestTask) /\ Exists(TestSubtask)
    /\ pages[TestTask]["Subtask"] = <<>>

\* the ids that 'Subtasks to transfer' of the test project holds
TransferredIds == DecodeIds(pages[TestTask]["Subtasks to transfer"], <<Comma, Space>>)

\* the statement as the specification has it: in every reachable state a
\* cleared 'Subtask' relation comes with the subtask ids in the transfer field
C28_ClearedMeansStored == SubtaskCleared => TransferredIds = <<TestSubtask>>

\* C28: in every reachable state in which the 'Subtask' relation of the test
\* project was cleared, its transfer field holds the subtask's id or, once
\* restoreSubtaskConnections is through, the completion note written in its
\* place; and the relation and the field change in one and the same update.
C28_ClearedWithIdsOrNote ==
    /\ [](SubtaskCleared =>
            \/ TransferredIds = <<TestSubtask>>
            \/ /\ pages[TestTask]["Subtasks to transfer"] = <<Note(1)>>
               /\ step \in {"complete"})
    /\ [][(Exists(TestTask) /\ pages'[TestTask]["Subtask"] # pages[TestTask]["Subtask"]
           /\ pages'[TestTask]["Subtask"] = <<>>) =>
            /\ step = "handling-subtasks" /\ opc = "hs-update"
            /\ pages[TestTask]["Subtasks to transfer"] = <<>>
            /\ pages'[TestTask]["Subtasks to transfer"] =
                    JoinCommaSpace(MapSeq(pages[TestTask]["Subtask"], IdTok))]_vars

\* the orchestrator waits for the manual move: the relation is cleared and
\* the id is in the transfer field
C28_Witness ==
    /\ SubtaskCleared /\ TransferredIds = <<TestSubtask>>
    /\ step = "await-manual-move" /\ pages[TestTask]["parent"] = "Tasks"

\* ---- the orchestrator with a project that has more subtasks than one page

\* the operator, while the orchestrator waits at its first prompt, gives the
\* test project one more subtask in the Notion UI; the page-retrieve response
\* that handleSubtaskConnections reads then carries it in 'Subtask'
OperatorAddsSubtask ==
    /\ ~exited
    /\ step = "created" /\ opc = "idle"
    /\ \E id \in Ids \ {TestTask} :
        /\ ~Exists(id)
        /\ pages' = StoreCreate(pages, id, "Tasks",
                ("Task/project/activity" :> "Task") @@ ("Status" :> "Done") @@
                ("Parent item" :> <<TestTask>>))
    /\ UNCHANGED <<fails, orchVars, fn, second, batchVars>>

NextOrchSubtasks == NextOrch \/ OperatorAddsSubtask

SpecOrchSubtasks == InitOrch /\ [][NextOrchSubtasks]_vars

\* the 'Subtask' relation of the test project comes back with has_more set
SubtaskOverflow == Exists(TestTask) /\ HasMore(pages[TestTask]["Subtask"])

\* C29: when the 'Subtask' relation of the project has has_more set, the
\* handling-subtasks step ends in the error step without a store write; the
\* relation stays as it is, 'Subtasks to transfer' stays empty and the
\* orchestrator does not get to await-manual-move.
C29_OverflowAborts ==
    /\ [][(SubtaskOverflow /\ opc = "hs-retrieve" /\ opc' # opc) =>
            (step' = "error" /\ pages' = pages)]_vars
    /\ [][SubtaskOverflow =>
            /\ pages'[TestTask]["Subtask"] = pages[TestTask]["Subtask"]
            /\ pages'[TestTask]["Subtasks to transfer"] = <<>>
            /\ step' # "await-manual-move"]_vars

\* handling-subtasks met the overflowing relation without a store failure
\* and the orchestrator is in the error step, relation and field untouched
C29_Witness ==
    /\ SubtaskOverflow /\ fails = 0
    /\ step = "error" /\ error /\ opc = "idle"
    /\ pages[TestTask]["Subtasks to transfer"] = <<>>
    /\ pages[TestTask]["Parent projects to transfer"] # <<>>

\* ---- the order of the orchestrator's store writes

\* a step in which the program, not the operator, changes the store
ProgramWrites == pages' # pages /\ ~ManualMove

\* the relations of the test project have been saved by save-relations
RelationsSaved == Exists(TestTask) /\ pages[TestTask]["Parent projects to transfer"] # <<>>

InVerifyLoop == step \in {"await-manual-move", "verifying"}

\* the test page is in the Projects database
PageMoved == Exists(TestTask) /\ pages[TestTask]["parent"] = "Projects"

\* C31: a failed verification of the move never leads to error: from
\* await-manual-move and verifying the orchestrator only gets to
\* await-manual-move, verifying or moved, a verification that does not find
\* the page in Projects goes back to await-manual-move, where 'c' starts the
\* next one; and once the page is in Projects, the orchestrator reaches moved
\* unless the operator stops asking for a verification.
C31_VerifyLoopLive ==
    /\ [][InVerifyLoop => (step' \in {"await-manual-move", "verifying", "moved"})]_vars
    /\ [][(opc = "verify-retrieve" /\ opc' # opc /\ step' # "moved") =>
            (step' = "await-manual-move" /\ ~exited' /\ client' /\ taskId' # "none")]_vars
    /\ []((InVerifyLoop /\ PageMoved) =>
            (<>(step = "moved") \/ <>[](step = "await-manual-move")))

\* moved was reached by a verification that came after one that did not find
\* the page in Projects, with no store failure in the run
C31_Witness ==
    /\ step = "moved" /\ error /\ fails = 0 /\ PageMoved

\* ---- save-subtasks-relations with a 'Subtask' relation of several pages

\* the lists of distinct ids a 'Subtask' relation of p1 may hold
SubtaskLists ==
    LET others == Ids \ {"p1"}
    IN  {<<>>} \cup {<<a>> : a \in others}
        \cup {l \in [1..2 -> others] : Cardinality(Range(l)) = 2}
        \cup {l \in [1..3 -> others] : Cardinality(Range(l)) = 3}

\* p1 and p2 are marked for migration; p1 has the given subtasks, which
\* name it as their parent item
InitSaveSubtasks ==
    /\ \E rel \in SubtaskLists :
        LET parentItem(r) == IF r \in Range(rel) THEN <<"p1">> ELSE <<>>
        IN  pages = ("p1" :> Project(rel, <<"x1">>, <<"u1">>)) @@
                    ("p2" :> [Project(<<>>, <<"x1">>, <<"u1">>)
                                EXCEPT !["Parent item"] = parentItem("p2")]) @@
                    ("s1" :> Task("None", parentItem("s1"))) @@
                    ("s2" :> Task("None", parentItem("s2")))
    /\ fails = 0
    /\ OrchIdle
    /\ cmd = "idle" /\ pc = "idle" /\ projects = <<>> /\ i = 0
    /\ loc = NoLoc /\ report = <<>> /\ result = "none" /\ runs = 0
    /\ mode = "save-subtasks" /\ hist = NoHist /\ fn = NoFn /\ second = NoSecond

NextSaveSubtasks ==
    \/ Start \/ Query \/ Kill \/ GarRetrieve \/ GarPage
    \/ SsSubRetrieve \/ SsSubUpdate \/ SsUpdate \/ MarkError

\* an awaited call of the paginated read returns or throws
ReadContinues == GarRetrieve \/ GarPage

\* save-subtasks-relations, run up to MaxRuns times
SpecSaveSubtasks == InitSaveSubtasks /\ [][NextSaveSubtasks]_vars /\ WF_vars(ReadContinues)

\* getAllRelationIds is reading the relation of the record at hand
Reading == cmd = "save-subtasks-relations" /\ pc \in {"gar-retrieve", "gar-page"}

\* the read of a page of the relation succeeds
PageRead == pc = "gar-page" /\ cmd' = cmd /\ fails' = fails

\* C32: getAllRelationIds terminates, and when every page is served it
\* returns the ids of the relation in page order, each exactly once: after
\* each page the cursor has advanced and the ids read so far are the
\* relation up to the cursor; the loop ends with the page that has no
\* successor, and the caller then holds the whole relation.
C32_ReadsAllPages ==
    /\ [][PageRead =>
            LET rel == pages[Cur.id]["Subtask"] IN
            IF pc' = "gar-page"
            THEN /\ i' = i
                 /\ loc'.cursor > loc.cursor /\ loc'.cursor < Len(rel)
                 /\ loc'.ids = SubSeq(rel, 1, loc'.cursor)
            ELSE /\ loc.cursor + RelationPageSize >= Len(rel)
                 /\ IF rel = <<>>
                    THEN Len(report') = Len(report) + 1 /\ report'[Len(report')].outcome = "skipped"
                    ELSE /\ pc' = "ss-sub-retrieve"
                         /\ loc'.ids = rel /\ NoDuplicates(loc'.ids)]_vars
    /\ \A n \in 1..Cardinality(Ids) : (Reading /\ i = n) ~> ~(Reading /\ i = n)

\* a relation of more than one page was read without a store failure and
\* the caller starts on its first subtask with the whole list
C32_Witness ==
    /\ cmd = "save-subtasks-relations" /\ pc = "ss-sub-retrieve" /\ loc.k = 1
    /\ fails = 0
    /\ Len(pages[Cur.id]["Subtask"]) > RelationPageSize
    /\ loc.ids = pages[Cur.id]["Subtask"]

\* ---- a failed read of the 'Subtask' relation

\* the record at hand is deleted in Notion while save-subtasks-relations
\* reads its relation: from now on the store rejects every call that names it
OperatorDeletes ==
    /\ Reading
    /\ Exists(Cur.id)
    /\ pages' = [pages EXCEPT ![Cur.id] = NoPage]
    /\ UNCHANGED <<fails, orchVars, fn, second, batchVars>>

NextSaveSubtasksGone == NextSaveSubtasks \/ OperatorDeletes

SpecSaveSubtasksGone ==
    InitSaveSubtasks /\ [][NextSaveSubtasksGone]_vars /\ WF_vars(ReadContinues)

\* a call of getAllRelationIds throws
ReadFails ==
    /\ Reading /\ pc' \notin {"gar-retrieve", "gar-page"} /\ result' # "killed"
    /\ \/ fails' > fails
       \/ ~Exists(Cur.id)

\* the per-record catch of save-subtasks-relations runs after a failed read
CatchAfterRead ==
    /\ cmd = "save-subtasks-relations" /\ pc = "mark-error" /\ loc.errors = {"subtasks"}
    /\ pc' # pc /\ result' # "killed"

\* C33: when the read of the 'Subtask' relation fails on some page, the
\* caller gets no id at all and nothing is written; the record is then
\* marked Error, by a write that touches nothing else, and the step goes on
\* to the next record of the working set.
C33_ReadFailureIsLocal ==
    /\ [][ReadFails => (pages' = pages /\ pc' = "mark-error" /\ loc'.ids = <<>>)]_vars
    /\ [][CatchAfterRead =>
            /\ pages' = StoreUpdate(pages, Cur.id, "Migration status" :> "Error")
            /\ report' = Append(report, [id |-> Cur.id, outcome |-> "error",
                                        errors |-> loc.errors, acc |-> loc.acc])
            /\ IF i < Len(projects)
               THEN cmd' = cmd /\ i' = i + 1 /\ pc' = "gar-retrieve"
               ELSE result' = "success"]_vars

\* ---- the subtask links on the source side

\* the subtask ids that the transfer field of a record holds
SavedSubtasks(r) == Range(DecodeIds(pages[r]["Subtasks to transfer"], <<Comma, Space>>))

\* C34: no subtask link is lost on the source side: whenever remove-subtasks
\* clears the 'Subtask' relation of a record, the ids it removes are in the
\* record's 'Subtasks to transfer'; and p1, which starts with the subtasks s1
\* and s2, has them either in its relation or in its transfer field as long
\* as it is in the Tasks database.
C34_NoSubtaskLost ==
    /\ [][(cmd = "remove-subtasks" /\ pc = "rm-update" /\ pages' # pages) =>
            Range(pages[Cur.id]["Subtask"]) \subseteq
                Range(DecodeIds(pages'[Cur.id]["Subtasks to transfer"], <<Comma, Space>>))]_vars
    /\ [](pages["p1"]["parent"] = "Tasks" =>
            {"s1", "s2"} \subseteq (Range(pages["p1"]["Subtask"]) \cup SavedSubtasks("p1")))

\* ---- the completion note of the subtask restore

\* 'Subtasks to transfer' of the test project holds the completion note
NoteWritten == Exists(TestTask) /\ pages[TestTask]["Subtasks to transfer"] = <<Note(1)>>

\* C35: the id list in 'Subtasks to transfer' is replaced by the completion
\* note only when every listed subtask is linked to the moved project: the
\* write of the note finds the subtask with the project in its 'Projects'
\* relation, and so does every state in which the note is there.
C35_NoteAfterAllLinked ==
    /\ [][(opc = "rs-clear" /\ pages' # pages) =>
            \A n \in 1..Len(oloc.ids) :
                Exists(oloc.ids[n]) /\ taskId \in Range(pages[oloc.ids[n]]["Projects"])]_vars
    /\ [](NoteWritten => TestTask \in Range(pages[TestSubtask]["Projects"]))

\* ---- the orchestrator with the input handler of the last effect run

\* every effect of the last render has run: the auto-execute effect, and the
\* one by which useInput subscribes the handler of that render
Settled == effDeps = <<step, client, taskId>>

\* state.step in the closure of the subscribed input handler
HandlerStep == IF Len(effDeps) = 3 THEN effDeps[1] ELSE "none"

\* the first store call of a step
FirstCall(s) ==
    CASE s = "saving-relations" -> "save-retrieve"
      [] s = "handling-subtasks" -> "hs-retrieve"
      [] s = "verifying" -> "verify-retrieve"
      [] s = "updating" -> "upd-retrieve"

\* executeStep(s) as the handler or the effect calls it: nothing keeps it from
\* starting while another execution awaits a store call.  Two executions in
\* flight are modelled; a call that would start a third is not taken.
StartExecution(s) ==
    /\ client /\ taskId # "none"
    /\ step' = s
    /\ IF opc = "idle"
       THEN opc' = FirstCall(s) /\ UNCHANGED second
       ELSE /\ second.opc = "idle"
            /\ second' = [opc |-> FirstCall(s), oloc |-> [text |-> <<>>]]
            /\ UNCHANGED opc

\* useInput: the handler that runs is the subscribed one, and it tests the
\* step of its own render
HandlerKeyPress ==
    /\ ~exited
    /\ \E input \in Keys :
        /\ \/ HandlerStep = "created" /\ input \in {"y", "n"}
           \/ HandlerStep = "await-manual-move" /\ input = "c"
           \/ HandlerStep = "moved" /\ input \in {"y", "n"}
           \/ HandlerStep \in {"complete", "error"} /\ input \in {"return", "q"}
        /\ IF HandlerStep = "created" /\ input = "y"
             THEN StartExecution("saving-relations") /\ UNCHANGED exited
           ELSE IF HandlerStep = "await-manual-move"
             THEN StartExecution("verifying") /\ UNCHANGED exited
           ELSE IF HandlerStep = "moved" /\ input = "y"
             THEN StartExecution("updating") /\ UNCHANGED exited
           ELSE IF input = "n"
             THEN step' = "complete" /\ UNCHANGED <<opc, second, exited>>
           ELSE exited' = TRUE /\ UNCHANGED <<step, opc, second>>
    /\ UNCHANGED <<pages, fails, error, client, taskId, oloc, effDeps, batchVars, fn>>

\* the effects of a render: the handler is subscribed anew and
\* handling-subtasks is executed
RenderEffect ==
    /\ opc # "mount"
    /\ ~Settled
    /\ effDeps' = <<step, client, taskId>>
    /\ IF client /\ taskId # "none" /\ step \in {"handling-subtasks"}
       THEN StartExecution(step)
       ELSE UNCHANGED <<step, opc, second>>
    /\ UNCHANGED <<pages, fails, error, client, taskId, oloc, exited, batchVars, fn>>

\* the store answers the call that the execution in the first place awaits;
\* the effects of a render run before an answer arrives
StoreAnswers ==
    /\ Settled
    /\ \/ SaveRetrieve \/ SaveUpdate \/ HsRetrieve \/ HsUpdate \/ VerifyRetrieve
       \/ UpdRetrieve \/ UpdUpdate \/ RsRetrieve \/ RsSubRetrieve \/ RsSubUpdate \/ RsClear

\* the answer for the other execution is the next to arrive: the two
\* executions change places
Resume ==
    /\ Settled
    /\ second.opc # "idle"
    /\ opc' = second.opc /\ oloc' = second.oloc
    /\ second' = IF opc = "idle" THEN NoSecond ELSE [opc |-> opc, oloc |-> oloc]
    /\ UNCHANGED <<pages, fails, step, error, client, taskId, effDeps, exited, batchVars, fn>>

NextOrchRace ==
    \/ Mount \/ InitCreateTask \/ InitCreateSubtask \/ InitValidate
    \/ RenderEffect \/ HandlerKeyPress \/ ManualMove
    \/ StoreAnswers \/ Resume

SpecOrchRace == InitOrch /\ [][NextOrchRace]_vars

\* the handler or the effect starts a step execution
StartsExecution ==
    \/ opc = "idle" /\ opc' \in {"save-retrieve", "hs-retrieve", "verify-retrieve", "upd-retrieve"}
    \/ second.opc = "idle" /\ second'.opc # "idle" /\ opc' = opc

\* C36: at most one step execution of the orchestrator is in flight, and a
\* step is executed once: an execution is started only while none is in
\* flight, saving-relations only from created, handling-subtasks only from
\* saving-relations and updating only from moved.
C36_SingleExecution ==
    /\ [](second.opc = "idle")
    /\ [][StartsExecution =>
            /\ opc = "idle" /\ second.opc = "idle"
            /\ step' = "saving-relations" => step = "created"
            /\ step' = "handling-subtasks" => step \in {"saving-relations", "handling-subtasks"}
            /\ step' = "updating" => step = "moved"]_vars

\* ---- the statuses of initial-validation and of post-move-update

\* C37: every status the validator accepts is mapped by post-move-update:
\* whenever the validator returns valid for a record that has a status, the
\* payload post-move-update builds from that record has a Status entry.
C37_AcceptedStatusMapped ==
    [][(ValidatorReturns /\ Returned.outcome = "valid"
        /\ pages[Returned.id]["Status"] # "None") =>
            "Status" \in DOMAIN PostMovePayload(pages[Returned.id])]_vars

\* ---- the migration marker

\* the steps that are said to leave the marker alone when they succeed
MarkerKeepingSteps ==
    {"save-parent-project-relations", "save-subtasks-relations", "remove-subtasks",
     "post-move-update", "relink-parent-projects", "relink-subtasks"}

\* a step of a running subcommand that changes the store
StepWrites == cmd # "idle" /\ pc # "query" /\ pages' # pages

\* the step finishes its current record without an error
RecordSucceeds ==
    /\ cmd \in MarkerKeepingSteps
    /\ Len(report') = Len(report) + 1
    /\ report'[Len(report')].outcome \notin {"error", "invalid", "assign-failed"}

\* C38: a write of a step changes a migration marker only to Error, on the
\* record being processed and in the step's error path, or to 'Subtask to
\* relink', on the subtask save-subtasks-relations is working on; and the
\* write with which one of the six steps finishes a record successfully
\* leaves the marker of that record as it was.
C38_MarkerWrites ==
    [][/\ StepWrites =>
            \A r \in Ids :
                pages'[r]["Migration status"] # pages[r]["Migration status"] =>
                    \/ /\ r = Cur.id /\ pc \in {"mark-error", "v-mark"}
                       /\ pages'[r]["Migration status"] = "Error"
                    \/ /\ cmd = "save-subtasks-relations" /\ pc = "ss-sub-update"
                       /\ r = loc.ids[loc.k]
                       /\ pages'[r]["Migration status"] = "Subtask to relink"
       /\ RecordSucceeds =>
            pages'[Cur.id]["Migration status"] = pages[Cur.id]["Migration status"]]_vars

\* save-subtasks-relations has saved p1 without a failure: p1 keeps its
\* marker and its subtask s1 got 'Subtask to relink'
C38_Witness ==
    /\ cmd = "save-subtasks-relations" /\ fails = 0
    /\ Len(report) >= 1 /\ report[1].id = "p1" /\ report[1].outcome = "saved"
    /\ pages["p1"]["Migration status"] = "Project to migrate"
    /\ pages["p1"]["Subtasks to transfer"] # <<>>
    /\ pages["s1"]["Migration status"] = "Subtask to relink"

\* ---- fix-in-charge comes to an end

\* what fix-in-charge does once started: its awaited store calls return, and
\* the operator picks a user whenever the prompt offers one
FixContinues ==
    \/ Query \/ FScan \/ FAssign \/ FParent \/ FScanned
    \/ FSelect \/ FSelRetrieve \/ FSelUpdate

SpecFixFair == InitFix /\ [][NextFix]_vars /\ WF_vars(FixContinues)

\* the prompt of fix-in-charge shows a record without any user to pick
EmptyPrompt == cmd = "fix-in-charge" /\ pc = "f-prompt" /\ Cur.properties["In charge"] = <<>>

\* C39: fix-in-charge always finishes: once started it eventually reports a
\* result, also when the automatic assignment of the integration user to a
\* record with nobody in charge has failed.
C39_FixFinishes ==
    (cmd = "fix-in-charge") ~> (cmd = "idle" /\ result \in {"success", "failure", "killed"})

====
